---- MODULE Spec2Model ----
(***************************************************************************)
(* The WordPress import of ChrisB_Blog (scripts/migrate_wordpress.py) over *)
(* the blog store (blog/models.py), with the editor's post form            *)
(* (editor/views.py) as the other writer of the store.                     *)
(*                                                                         *)
(* The store is four tables (users, tags, posts, comments); a row's        *)
(* primary key is its index in the table.  main() is a process whose every *)
(* store operation is one step, so that an exception raised by one         *)
(* operation leaves behind exactly what the earlier ones committed.        *)
(* The rows carry the columns the import writes, the post's body           *)
(* (content_md, and the content_html Post.save renders from it) and        *)
(* featured_image; Post.created_at and updated_at (stamped by every save,  *)
(* read by nothing here) are left out.                                     *)
(*                                                                         *)
(* Texts are strings: html_to_markdown is its regular-expression passes,   *)
(* one after the other, each a scan of the text from left to right.        *)
(*                                                                         *)
(* Beside the import there are the two media tools                         *)
(* (scripts/download_images.py, scripts/extract_featured_images.py) over   *)
(* the Image table, under SpecMedia, and html_to_markdown on its own,      *)
(* under SpecT.                                                            *)
(***************************************************************************)
EXTENDS Integers, Sequences, FiniteSets, TLC

VARIABLES users, tags, posts, comments, clock, run, lastDoc, faults,
          images, dl, fe, net, tx, gen

\* what the media tools, the transcoder on its own and the cover task add to
\* the state
tools == <<images, dl, fe, net, tx, gen>>

vars == <<users, tags, posts, comments, clock, run, lastDoc, faults, tools>>

store == [users |-> users, tags |-> tags, posts |-> posts, comments |-> comments]

(***************************************************************************)
(* Bounds of the model.                                                    *)
(***************************************************************************)
MaxClock == 2         \* runs of main() in one behaviour
MaxCommentId == 2     \* wp:comment_id is drawn from 1..MaxCommentId
MaxComments == 2      \* wp:comment elements of one item
MaxEditorPosts == 1   \* posts made through the editor form
MaxFaults == 1        \* store operations that fail in one behaviour
MaxPosts == 2         \* posts in the store the media tools find
MaxFragments == 3     \* pieces of a text given to the transcoder alone

Runs == {1, 2}        \* the processes that may run main()

(***************************************************************************)
(* Values.  0 is None for a key or a reference; "" is an element without   *)
(* text (ElementTree gives None, which every `or` of the parser turns into *)
(* the empty value); Missing is an element that is not there (find()       *)
(* returns None and `.text` raises AttributeError).                        *)
(***************************************************************************)
None == 0
Missing == "<missing>"

NoTime == [k |-> "none", t |-> 0]
SrcTime == [k |-> "src", t |-> 0]
Now(c) == [k |-> "now", t |-> c]

ValidPubDate == "Mon, 01 Jan 2024 10:00:00 +0000"
ValidCommentDate == "2024-01-02 10:00:00"

\* datetime.strptime(text, fmt): the timestamp, or ValueError
strptime(text, valid) == IF text = valid THEN SrcTime ELSE [k |-> "ValueError", t |-> 0]

\* django.utils.text.slugify on the titles of the model
slugify(title) ==
    CASE title = "Hello World" -> "hello-world"
      [] title = "Second Post" -> "second-post"
      [] title = "Untitled" -> "untitled"
      [] OTHER -> ""          \* "???": no word character survives

(***************************************************************************)
(* Text.  A text is a string; SubSeq(s, i, i) is its i-th character.       *)
(***************************************************************************)
\* s[i:], for a 1-based i
From(s, i) == SubSeq(s, i, Len(s))

\* does pat start at index p of s
starts(s, pat, p) == p >= 1 /\ p + Len(pat) - 1 <= Len(s) /\ SubSeq(s, p, p + Len(pat) - 1) = pat

\* str.find: the first index from i on where pat starts, 0 when there is none
RECURSIVE find(_, _, _)
find(s, pat, i) ==
    IF i + Len(pat) - 1 > Len(s) THEN 0
    ELSE IF starts(s, pat, i) THEN i
    ELSE find(s, pat, i + 1)

\* str.replace(old, new), old not empty: every occurrence, left to right
RECURSIVE replace(_, _, _)
replace(s, old, new) ==
    LET p == find(s, old, 1)
    IN  IF p = 0 THEN s
        ELSE SubSeq(s, 1, p - 1) \o new \o replace(From(s, p + Len(old)), old, new)

\* the characters str.strip() and \s take for white space
Whitespace == {" ", "\t", "\n", "\r"}

RECURSIVE lstrip(_)
lstrip(s) == IF s # "" /\ Head(s) \in Whitespace THEN lstrip(Tail(s)) ELSE s

RECURSIVE rstrip(_)
rstrip(s) ==
    IF s # "" /\ SubSeq(s, Len(s), Len(s)) \in Whitespace
    THEN rstrip(SubSeq(s, 1, Len(s) - 1)) ELSE s

\* a strip that leaves the text as it is
strip_none(s) == s

\* str.strip()
strip(s) == rstrip(lstrip(s))

\* the first index from i on whose character is not white space (Len + 1 at the end)
RECURSIVE skip_space(_, _)
skip_space(s, i) ==
    IF i <= Len(s) /\ SubSeq(s, i, i) \in Whitespace THEN skip_space(s, i + 1) ELSE i

\* the last index of the run of newlines that starts at i
RECURSIVE run_end(_, _)
run_end(s, i) == IF starts(s, "\n", i + 1) THEN run_end(s, i + 1) ELSE i

\* the greatest member of a set of indices, 0 for the empty set
Last(S) == IF S = {} THEN 0 ELSE CHOOSE h \in S : \A o \in S : o <= h

\* the indices h from i on where pat starts with no '>' in s[i..h-1]: where
\* the text of pat can follow a [^>]* that starts at i
After(s, pat, i) ==
    LET g == find(s, ">", i)
    IN  {h \in i..Len(s) : starts(s, pat, h) /\ (g = 0 \/ h < g)}

(***************************************************************************)
(* html_to_markdown: the passes of re.sub in the order of the code.  A     *)
(* pass is a record; match_at is the match of its pattern that starts at   *)
(* index p: the index of its last character (0: no match) and the text     *)
(* that replaces it.                                                       *)
(***************************************************************************)
NoMatch == [end |-> 0, out |-> ""]

\* the backquote, a character no TLA+ string can hold: "~" stands for it, and
\* no other text of the model has a "~"
Backtick == "~"
Fence == Backtick \o Backtick \o Backtick

Pass(kind, open, close, pre, post) ==
    [kind |-> kind, open |-> open, close |-> close, pre |-> pre, post |-> post]

\* open[^>]*>(.*?)close  ->  pre \1 post
match_element(rule, s, p) ==
    LET g == find(s, ">", p + Len(rule.open))
        c == IF g = 0 THEN 0 ELSE find(s, rule.close, g + 1)
    IN  IF ~starts(s, rule.open, p) \/ c = 0 THEN NoMatch
        ELSE [end |-> c + Len(rule.close) - 1,
              out |-> rule.pre \o SubSeq(s, g + 1, c - 1) \o rule.post]

\* <blockquote[^>]*>(.*?)</blockquote>  ->  '> ' + the group, stripped, with
\* '> ' after each of its newlines + '\n'
match_blockquote(rule, s, p) ==
    LET m == match_element(Pass("element", rule.open, rule.close, "", ""), s, p)
    IN  IF m.end = 0 THEN NoMatch
        ELSE [end |-> m.end, out |-> "> " \o replace(strip(m.out), "\n", "\n> ") \o "\n"]

\* <a[^>]*href="([^"]*)"[^>]*>(.*?)</a>  ->  [\2](\1)
match_link(rule, s, p) ==
    LET quote(h) == find(s, "\"", h + 6)
        gt(h) == IF quote(h) = 0 THEN 0 ELSE find(s, ">", quote(h) + 1)
        close(h) == IF gt(h) = 0 THEN 0 ELSE find(s, "</a>", gt(h) + 1)
        h == Last({x \in After(s, "href=\"", p + 2) : close(x) # 0})
    IN  IF ~starts(s, "<a", p) \/ h = 0 THEN NoMatch
        ELSE [end |-> close(h) + 3,
              out |-> "[" \o SubSeq(s, gt(h) + 1, close(h) - 1) \o "]("
                          \o SubSeq(s, h + 6, quote(h) - 1) \o ")"]

\* <img[^>]*src="([^"]*)"[^>]*alt="([^"]*)"[^>]*/?>  ->  ![\2](\1)
match_img_alt(rule, s, p) ==
    LET quote(h) == find(s, "\"", h + 5)
        gt(a) == IF quote(a) = 0 THEN 0 ELSE find(s, ">", quote(a) + 1)
        alt(h) == IF quote(h) = 0 THEN 0
                  ELSE Last({a \in After(s, "alt=\"", quote(h) + 1) : gt(a) # 0})
        h == Last({x \in After(s, "src=\"", p + 4) : alt(x) # 0})
    IN  IF ~starts(s, "<img", p) \/ h = 0 THEN NoMatch
        ELSE [end |-> gt(alt(h)),
              out |-> "![" \o SubSeq(s, alt(h) + 5, quote(alt(h)) - 1) \o "]("
                           \o SubSeq(s, h + 5, quote(h) - 1) \o ")"]

\* <img[^>]*src="([^"]*)"[^>]*/?>  ->  ![](\1)
match_img(rule, s, p) ==
    LET quote(h) == find(s, "\"", h + 5)
        gt(h) == IF quote(h) = 0 THEN 0 ELSE find(s, ">", quote(h) + 1)
        h == Last({x \in After(s, "src=\"", p + 4) : gt(x) # 0})
    IN  IF ~starts(s, "<img", p) \/ h = 0 THEN NoMatch
        ELSE [end |-> gt(h), out |-> "![](" \o SubSeq(s, h + 5, quote(h) - 1) \o ")"]

\* <pre[^>]*><code[^>]*>(.*?)</code></pre>  ->  a fenced block
match_pre_code(rule, s, p) ==
    LET g1 == find(s, ">", p + 4)
        g2 == IF g1 = 0 \/ ~starts(s, "<code", g1 + 1) THEN 0 ELSE find(s, ">", g1 + 6)
        c == IF g2 = 0 THEN 0 ELSE find(s, "</code></pre>", g2 + 1)
    IN  IF ~starts(s, "<pre", p) \/ c = 0 THEN NoMatch
        ELSE [end |-> c + 12, out |-> Fence \o "\n" \o SubSeq(s, g2 + 1, c - 1) \o "\n" \o Fence \o "\n"]

\* open[^>]*>  ->  pre
match_tag(rule, s, p) ==
    LET g == find(s, ">", p + Len(rule.open))
    IN  IF ~starts(s, rule.open, p) \/ g = 0 THEN NoMatch
        ELSE [end |-> g, out |-> rule.pre]

\* a literal  ->  pre
match_literal(rule, s, p) ==
    IF starts(s, rule.open, p) THEN [end |-> p + Len(rule.open) - 1, out |-> rule.pre]
    ELSE NoMatch

\* open\s*/?>  ->  pre
match_void(rule, s, p) ==
    LET j == skip_space(s, p + Len(rule.open))
        k == IF starts(s, "/", j) THEN j + 1 ELSE j
    IN  IF starts(s, rule.open, p) /\ starts(s, ">", k)
        THEN [end |-> k, out |-> rule.pre] ELSE NoMatch

\* <[^>]+>  ->  ''
match_any_tag(rule, s, p) ==
    LET g == find(s, ">", p + 1)
    IN  IF starts(s, "<", p) /\ g > p + 1 THEN [end |-> g, out |-> ""] ELSE NoMatch

\* \n{3,}  ->  two newlines
match_newlines(rule, s, p) ==
    IF starts(s, rule.open, p) THEN [end |-> run_end(s, p), out |-> rule.pre] ELSE NoMatch

match_at(rule, s, p) ==
    CASE rule.kind = "element" -> match_element(rule, s, p)
      [] rule.kind = "blockquote" -> match_blockquote(rule, s, p)
      [] rule.kind = "link" -> match_link(rule, s, p)
      [] rule.kind = "img_alt" -> match_img_alt(rule, s, p)
      [] rule.kind = "img" -> match_img(rule, s, p)
      [] rule.kind = "pre_code" -> match_pre_code(rule, s, p)
      [] rule.kind = "tag" -> match_tag(rule, s, p)
      [] rule.kind = "literal" -> match_literal(rule, s, p)
      [] rule.kind = "void" -> match_void(rule, s, p)
      [] rule.kind = "any_tag" -> match_any_tag(rule, s, p)
      [] rule.kind = "newlines" -> match_newlines(rule, s, p)

\* re.sub(pattern, replacement, s) from index p on: the matches left to
\* right, none overlapping.  Every pattern starts with the literal rule.open,
\* so a match starts where that literal does.
RECURSIVE re_sub_from(_, _, _)
re_sub_from(rule, s, p) ==
    LET q == find(s, rule.open, p)
        m == match_at(rule, s, q)
    IN  IF q = 0 THEN From(s, p)
        ELSE IF m.end = 0 THEN SubSeq(s, p, q) \o re_sub_from(rule, s, q + 1)
        ELSE SubSeq(s, p, q - 1) \o m.out \o re_sub_from(rule, s, m.end + 1)

re_sub(rule, s) == re_sub_from(rule, s, 1)

Passes ==
    << Pass("element", "<h1", "</h1>", "# ", "\n"),
       Pass("element", "<h2", "</h2>", "## ", "\n"),
       Pass("element", "<h3", "</h3>", "### ", "\n"),
       Pass("element", "<h4", "</h4>", "#### ", "\n"),
       Pass("element", "<strong", "</strong>", "**", "**"),
       Pass("element", "<b", "</b>", "**", "**"),
       Pass("element", "<em", "</em>", "*", "*"),
       Pass("element", "<i", "</i>", "*", "*"),
       Pass("link", "<a", "</a>", "", ""),
       Pass("img_alt", "<img", "", "", ""),
       Pass("img", "<img", "", "", ""),
       Pass("tag", "<ul", "", "", ""),
       Pass("literal", "</ul>", "", "\n", ""),
       Pass("tag", "<ol", "", "", ""),
       Pass("literal", "</ol>", "", "\n", ""),
       Pass("element", "<li", "</li>", "- ", "\n"),
       Pass("pre_code", "<pre", "</code></pre>", "", ""),
       Pass("element", "<code", "</code>", Backtick, Backtick),
       Pass("blockquote", "<blockquote", "</blockquote>", "", ""),
       Pass("element", "<p", "</p>", "", "\n\n"),
       Pass("void", "<br", "", "\n", ""),
       Pass("void", "<hr", "", "\n---\n", ""),
       Pass("any_tag", "<", "", "", ""),
       Pass("newlines", "\n\n\n", "", "\n\n", "") >>

\* the passes from pass k on (no pass changes an empty text)
RECURSIVE apply_passes(_, _)
apply_passes(md, k) ==
    IF k > Len(Passes) \/ md = "" THEN md ELSE apply_passes(re_sub(Passes[k], md), k + 1)

\* the conversion without the last line, md.strip()
html_to_markdown_unstripped(html) ==
    IF html = "" THEN "" ELSE apply_passes(html, 1)

\* html_to_markdown: '' for no text, or the passes and the final strip
html_to_markdown(html) ==
    IF html = "" THEN "" ELSE strip(apply_passes(html, 1))

(***************************************************************************)
(* Image references and URLs (scripts/download_images.py and               *)
(* scripts/extract_featured_images.py).                                    *)
(***************************************************************************)
\* `pat in s`
contains(s, pat) == find(s, pat, 1) # 0

Quotes == {"\"", "'"}

\* the first index from i on that holds a quote of either kind, 0 for none
RECURSIVE first_quote(_, _)
first_quote(s, i) ==
    IF i > Len(s) THEN 0
    ELSE IF SubSeq(s, i, i) \in Quotes THEN i
    ELSE first_quote(s, i + 1)

\* the matches of !\[[^\]]*\]\(([^)]+)\) from index p on, left to right: where
\* each starts and its group
RECURSIVE md_images(_, _)
md_images(s, p) ==
    LET q == find(s, "![", p)
        j == find(s, "]", q + 2)
        k == IF j = 0 \/ ~starts(s, "(", j + 1) THEN 0 ELSE find(s, ")", j + 2)
    IN  IF q = 0 THEN <<>>
        ELSE IF k > j + 2
        THEN <<[at |-> q, url |-> SubSeq(s, j + 2, k - 1)]>> \o md_images(s, k + 1)
        ELSE md_images(s, q + 1)

\* the matches of <img[^>]+src=["\']([^"\']+)["\'] from index p on
RECURSIVE html_images(_, _)
html_images(s, p) ==
    LET q == find(s, "<img", p)
        h == Last({x \in After(s, "src=", q + 4) \ {q + 4} :
                     /\ x + 4 <= Len(s)
                     /\ SubSeq(s, x + 4, x + 4) \in Quotes
                     /\ first_quote(s, x + 5) > x + 5})
        e == first_quote(s, h + 5)
    IN  IF q = 0 THEN <<>>
        ELSE IF h # 0
        THEN <<[at |-> q, url |-> SubSeq(s, h + 5, e - 1)]>> \o html_images(s, e + 1)
        ELSE html_images(s, q + 1)

Range(f) == {f[i] : i \in DOMAIN f}

\* the filter of extract_image_urls
wanted(url, domain) == contains(url, domain) \/ starts(url, "/", 1)

\* extract_image_urls: the set the two loops fill
extract_image_urls(content, domain) ==
    {m.url : m \in {x \in Range(md_images(content, 1)) \cup Range(html_images(content, 1)) :
                      wanted(x.url, domain)}}

\* extract_first_image_url: the first <img>, or else the first Markdown
\* image; "" stands for None
extract_first_image_url(content) ==
    IF html_images(content, 1) # <<>> THEN html_images(content, 1)[1].url
    ELSE IF md_images(content, 1) # <<>> THEN md_images(content, 1)[1].url
    ELSE ""

\* the last index of s that holds the character ch, 0 for none
RECURSIVE rfind(_, _, _)
rfind(s, ch, i) ==
    IF i = 0 THEN 0 ELSE IF SubSeq(s, i, i) = ch THEN i ELSE rfind(s, ch, i - 1)

\* urlparse(url).path, for a URL with no query and no fragment: what follows
\* scheme://host, or scheme:, or the URL itself
url_path(url) ==
    LET sep == find(url, "://", 1)
        slash == find(url, "/", sep + 3)
        colon == find(url, ":", 1)
    IN  IF sep # 0 THEN (IF slash = 0 THEN "" ELSE From(url, slash))
        ELSE IF colon # 0 /\ find(SubSeq(url, 1, colon), "/", 1) = 0 THEN From(url, colon + 1)
        ELSE url

\* os.path.basename
basename(path) == From(path, rfind(path, "/", Len(path)) + 1)

\* urljoin(base_url, url) for a url that starts with one '/'
urljoin(base_url, url) == base_url \o url

\* the part of Post._render_markdown the tools read: a Markdown image is
\* rendered as an <img> element, the rest of the text stands as it is
RECURSIVE render_from(_, _)
render_from(s, p) ==
    LET q == find(s, "![", p)
        j == find(s, "]", q + 2)
        k == IF j = 0 \/ ~starts(s, "(", j + 1) THEN 0 ELSE find(s, ")", j + 2)
    IN  IF q = 0 THEN From(s, p)
        ELSE IF k > j + 2
        THEN SubSeq(s, p, q - 1) \o "<img alt=\"" \o SubSeq(s, q + 2, j - 1) \o "\" src=\""
                \o SubSeq(s, j + 2, k - 1) \o "\">" \o render_from(s, k + 1)
        ELSE SubSeq(s, p, q) \o render_from(s, q + 1)

render_markdown(content_md) == render_from(content_md, 1)

(***************************************************************************)
(* Export documents.  A document is the XML file: whether it is            *)
(* well-formed, and the wp:author, wp:tag and item elements of its         *)
(* channel.  display_name is the list of its whitespace-separated words.   *)
(***************************************************************************)
Author(login, email, words) == [login |-> login, email |-> email, display_name |-> words]

WpTag(id, slug, name) == [term_id |-> id, slug |-> slug, name |-> name]

Com(id, parent) ==
    [comment_id |-> id, comment_parent |-> parent, comment_approved |-> "1",
     comment_date |-> ValidCommentDate, comment_author |-> "Bob",
     comment_author_email |-> "bob@example.org", comment_content |-> "Nice"]

BaseItem(id) ==
    [post_type |-> "post", status |-> "publish", post_id |-> id,
     title |-> IF id = 1 THEN "Hello World" ELSE "Second Post",
     post_name |-> IF id = 1 THEN "hello-world" ELSE "second-post",
     pubDate |-> ValidPubDate, creator |-> "alice", content |-> "", excerpt |-> "",
     tags |-> <<>>, comments |-> <<>>]

Doc(authors, tgs, items) ==
    [wellformed |-> TRUE, authors |-> authors, tags |-> tgs, items |-> items]

Alice == Author("alice", "", <<"Alice", "Liddell">>)
Foo == WpTag(1, "foo", "Foo")
Bar == WpTag(2, "bar", "Bar")

StdDoc(items) == Doc(<<Alice>>, <<Foo, Bar>>, items)

EmptyDoc == Doc(<<>>, <<>>, <<>>)
BrokenXml == [EmptyDoc EXCEPT !.wellformed = FALSE]

\* the sequences over S of length at most n
RECURSIVE SeqsUpTo(_, _)
SeqsUpTo(S, n) ==
    IF n = 0 THEN {<<>>}
    ELSE LET shorter == SeqsUpTo(S, n - 1)
         IN  shorter \cup {Append(q, x) : q \in shorter, x \in S}

CommentElems == {Com(id, parent) : id \in 1..MaxCommentId, parent \in 0..MaxCommentId}
CommentLists == SeqsUpTo(CommentElems, MaxComments)

TypeStatusItems ==
    {[BaseItem(1) EXCEPT !.post_type = ty, !.status = st] :
        ty \in {"post", "page"},
        st \in {"publish", "draft", "future", "trash", Missing}}
    \cup {[BaseItem(1) EXCEPT !.post_type = Missing]}

SlugItems ==
    {[BaseItem(id) EXCEPT !.post_name = n, !.title = t] :
        id \in {1, 2}, n \in {"hello-world", ""}, t \in {"Hello World", "???"}}

DateItems ==
    {[BaseItem(1) EXCEPT !.pubDate = d, !.status = st] :
        d \in {"", "yesterday", Missing}, st \in {"publish", "draft"}}

TagItems ==
    {[BaseItem(1) EXCEPT !.tags = tl, !.creator = who, !.excerpt = ex] :
        tl \in {<<"foo">>, <<"bar">>, <<"foo", "baz">>}, who \in {"alice", "mallory"},
        ex \in {"Summary"}}

CommentItems == {[BaseItem(1) EXCEPT !.comments = cl] : cl \in CommentLists}

\* bodies: none, plain text, markup
BodyItems ==
    {[BaseItem(1) EXCEPT !.content = b] :
        b \in {Missing, " Plain\n", "<h1>Hi</h1><p>World</p>", "<p>New</p>\n\n\n<br/><b>x</b>"}}

\* items without an optional element
OptionalItems ==
    {[BaseItem(1) EXCEPT !.excerpt = Missing],
     [BaseItem(1) EXCEPT !.comments = <<[Com(1, 0) EXCEPT !.comment_author_email = ""]>>],
     [BaseItem(1) EXCEPT !.comments = <<[Com(1, 0) EXCEPT !.comment_author_email = Missing]>>]}

\* the export of one post with a heading and a paragraph, the tag foo, a
\* comment and a reply to it
ScenarioDoc ==
    Doc(<<Alice>>, <<Foo>>,
        <<[BaseItem(1) EXCEPT !.content = "<h1>Hi</h1><p>World</p>", !.tags = <<"foo">>,
                              !.comments = <<Com(10, 0), Com(11, 10)>>]>>)

CommentVariants ==
    {[Com(1, 0) EXCEPT !.comment_approved = a, !.comment_date = d, !.comment_author = w] :
        a \in {"0", "spam"}, d \in {ValidCommentDate, "0000"}, w \in {"Bob", ""}}

\* documents of one item
SingleDocs ==
    {StdDoc(<<it>>) : it \in TypeStatusItems \cup SlugItems \cup DateItems
                              \cup TagItems \cup CommentItems \cup BodyItems
                              \cup OptionalItems}
    \cup {StdDoc(<<[BaseItem(2) EXCEPT !.comments = <<c>>]>>) : c \in CommentVariants}

\* documents of two items: a first item of any kind, and a sibling
PairDocs ==
    {StdDoc(<<it, BaseItem(2)>>) : it \in TypeStatusItems \cup SlugItems}
    \cup {StdDoc(<<[BaseItem(1) EXCEPT !.comments = ca], [BaseItem(2) EXCEPT !.comments = cb]>>) :
            ca \in SeqsUpTo({Com(1, 0), Com(2, 1)}, 2), cb \in {<<Com(1, 0)>>, <<Com(2, 1)>>}}

\* documents with other author and tag lists
ListDocs ==
    {Doc(al, tl, <<[BaseItem(1) EXCEPT !.tags = <<"foo">>]>>) :
        al \in {<<>>, <<Alice, Author("alice", "a@example.org", <<>>)>>},
        tl \in {<<>>, <<Bar, Foo, WpTag(3, "foo", "Other")>>}}

\* documents whose author has no e-mail element, and one that renames a tag
OtherDocs ==
    {Doc(<<[Alice EXCEPT !.email = Missing]>>, <<Foo>>, <<BaseItem(1)>>),
     Doc(<<Alice>>, <<WpTag(1, "foo", "Food")>>, <<[BaseItem(1) EXCEPT !.tags = <<"foo">>]>>),
     ScenarioDoc}

Docs == SingleDocs \cup PairDocs \cup ListDocs \cup OtherDocs \cup {EmptyDoc, BrokenXml}

(***************************************************************************)
(* The parser.  A parse returns [exc, value]: exc is "" or the exception   *)
(* that ended it.                                                          *)
(***************************************************************************)
Ok(v) == [exc |-> "", value |-> v]
Raised(e) == [exc |-> e, value |-> <<>>]

\* parse_tags: one dict per wp:tag, in document order
parse_tags(channel) ==
    [i \in 1..Len(channel.tags) |->
        [term_id |-> channel.tags[i].term_id,
         slug |-> channel.tags[i].slug,
         name |-> channel.tags[i].name]]

\* find() returns None for the e-mail element and `.text` is taken of it
author_raises(author) == author.email = Missing

\* parse_authors: `.text or ''` for the e-mail and the display name
parse_authors(channel) ==
    [i \in 1..Len(channel.authors) |->
        [login |-> channel.authors[i].login,
         email |-> channel.authors[i].email,
         display_name |-> channel.authors[i].display_name]]

\* a chain whose last branch keeps the post as a draft
wp_status_map_keep(wp_status) ==
    IF wp_status = "publish" THEN "published"
    ELSE IF wp_status = "future" THEN "scheduled"
    ELSE "draft"

\* the if/elif chain on wp:status; "" stands for the final `continue`
wp_status_map(wp_status) ==
    IF wp_status = "publish" THEN "published"
    ELSE IF wp_status = "draft" THEN "draft"
    ELSE IF wp_status = "future" THEN "scheduled"
    ELSE ""

\* the pubDate branch: empty text and ValueError both give None
parse_pub_date(pub_date) ==
    IF pub_date # ""
    THEN LET d == strptime(pub_date, ValidPubDate)
         IN  IF d.k = "ValueError" THEN NoTime ELSE d
    ELSE NoTime

\* the same for the e-mail element of a comment
comment_raises(c) == c.comment_author_email = Missing

\* one wp:comment element
parse_comment(c) ==
    [id |-> c.comment_id,
     parent |-> c.comment_parent,
     author_name |-> IF c.comment_author = "" THEN "Anonymous" ELSE c.comment_author,
     author_email |-> c.comment_author_email,
     content |-> c.comment_content,
     status |-> IF c.comment_approved = "1" THEN "approved"
                ELSE IF c.comment_approved = "spam" THEN "spam"
                ELSE "pending",
     created_at |-> LET d == strptime(c.comment_date, ValidCommentDate)
                    IN  IF d.k = "ValueError" THEN NoTime ELSE d]

\* the body of the item loop for an item that is kept
parse_item(item) ==
    [id |-> item.post_id,
     title |-> IF item.title = "" THEN "Untitled" ELSE item.title,
     slug |-> item.post_name,
     content |-> IF item.content = Missing THEN "" ELSE item.content,
     excerpt |-> IF item.excerpt = Missing THEN "" ELSE item.excerpt,
     status |-> wp_status_map(item.status),
     author |-> item.creator,
     published_at |-> parse_pub_date(item.pubDate),
     tags |-> item.tags,
     comments |-> [i \in 1..Len(item.comments) |-> parse_comment(item.comments[i])]]

\* parse_posts: the loop over the channel's items from item i, acc so far
RECURSIVE parse_posts_from(_, _, _)
parse_posts_from(items, i, acc) ==
    IF i > Len(items) THEN Ok(acc)
    ELSE LET item == items[i] IN
         IF item.post_type = Missing \/ item.post_type # "post"
         THEN parse_posts_from(items, i + 1, acc)
         ELSE IF item.status = Missing THEN Raised("AttributeError")
         ELSE IF wp_status_map(item.status) = ""
         THEN parse_posts_from(items, i + 1, acc)
         ELSE IF item.pubDate = Missing THEN Raised("AttributeError")
         ELSE IF \E j \in DOMAIN item.comments : comment_raises(item.comments[j])
         THEN Raised("AttributeError")
         ELSE parse_posts_from(items, i + 1, Append(acc, parse_item(item)))

parse_posts(channel) == parse_posts_from(channel.items, 1, <<>>)

\* parse_wordpress_xml: ET.parse, then the three lists
parse_wordpress_xml(doc) ==
    IF ~doc.wellformed THEN Raised("ParseError")
    ELSE LET ps == parse_posts(doc)
         IN  IF ps.exc # "" THEN Raised(ps.exc)
             ELSE IF \E i \in DOMAIN doc.authors : author_raises(doc.authors[i])
             THEN Raised("AttributeError")
             ELSE Ok([tags |-> parse_tags(doc), posts |-> ps.value,
                      authors |-> parse_authors(doc)])

NoData == [tags |-> <<>>, posts |-> <<>>, authors |-> <<>>]

(***************************************************************************)
(* The store: Django's ORM over the four tables.                           *)
(***************************************************************************)
Pks(table) == DOMAIN table

\* User.objects.get_or_create(username=..., defaults=...): <<table, pk, created>>
user_get_or_create(us, username, defaults) ==
    LET hit == {pk \in Pks(us) : us[pk].username = username}
    IN  IF hit # {}
        THEN [table |-> us, pk |-> CHOOSE pk \in hit : TRUE, created |-> FALSE]
        ELSE [table |-> Append(us, [defaults EXCEPT !.username = username]),
              pk |-> Len(us) + 1, created |-> TRUE]

NewUser == [username |-> "", email |-> "", first_name |-> "", last_name |-> <<>>,
            is_staff |-> FALSE]

Admin == [NewUser EXCEPT !.username = "admin", !.is_staff = TRUE]

\* the defaults of the author loop: first word, and the remaining words
author_defaults(wp_author) ==
    [NewUser EXCEPT
        !.email = wp_author.email,
        !.first_name = IF wp_author.display_name # <<>>
                       THEN Head(wp_author.display_name) ELSE "",
        !.last_name = IF wp_author.display_name # <<>>
                      THEN Tail(wp_author.display_name) ELSE <<>>]

\* Tag.objects.get_or_create(slug=..., defaults={name, wp_term_id})
tag_get_or_create(ts, wp_tag) ==
    LET hit == {pk \in Pks(ts) : ts[pk].slug = wp_tag.slug}
    IN  IF hit # {}
        THEN [table |-> ts, pk |-> CHOOSE pk \in hit : TRUE, created |-> FALSE]
        ELSE [table |-> Append(ts, [name |-> wp_tag.name, slug |-> wp_tag.slug,
                                    wp_term_id |-> wp_tag.term_id]),
              pk |-> Len(ts) + 1, created |-> TRUE]

\* a lookup that never finds the post: every import inserts
post_matches_none(ps, wp_post_id) == {}

\* the rows update_or_create(wp_post_id=...) looks at
post_matches(ps, wp_post_id) == {pk \in Pks(ps) : ps[pk].wp_post_id = wp_post_id}

\* a lookup that never finds the comment: every listing inserts
comment_matches_none(cs, wp_comment_id) == {}

\* the rows update_or_create(wp_comment_id=...) looks at
comment_matches(cs, wp_comment_id) == {pk \in Pks(cs) : cs[pk].wp_comment_id = wp_comment_id}

\* Post.save's loop: the first of slug, base-1, base-2, ... no other post has
RECURSIVE unique_slug(_, _, _, _, _)
unique_slug(ps, pk, base, slug, counter) ==
    IF \E o \in Pks(ps) : o # pk /\ ps[o].slug = slug
    THEN unique_slug(ps, pk, base, base \o "-" \o ToString(counter), counter + 1)
    ELSE slug

\* a save that leaves published_at as it was given
Post_save_unstamped(ps, pk, obj, now) ==
    LET named == IF obj.slug = ""
                 THEN [obj EXCEPT !.slug = unique_slug(ps, pk, slugify(obj.title),
                                                       slugify(obj.title), 1)]
                 ELSE obj
    IN  [named EXCEPT !.content_html = render_markdown(named.content_md)]

\* Post.save before super().save(): the slug, the rendered body and the
\* publication stamp
Post_save(ps, pk, obj, now) ==
    LET named == IF obj.slug = ""
                 THEN [obj EXCEPT !.slug = unique_slug(ps, pk, slugify(obj.title),
                                                       slugify(obj.title), 1)]
                 ELSE obj
        rendered == [named EXCEPT !.content_html = render_markdown(named.content_md)]
    IN  IF rendered.status = "published" /\ rendered.published_at.k = "none"
        THEN [rendered EXCEPT !.published_at = Now(now)]
        ELSE rendered

\* the unique index on Post.slug: does writing obj as row pk violate it
slug_taken(ps, pk, obj) == \E o \in Pks(ps) : o # pk /\ ps[o].slug = obj.slug

\* the table with row pk written (pk = Len + 1 inserts)
put(table, pk, row) ==
    IF pk \in Pks(table) THEN [table EXCEPT ![pk] = row] ELSE Append(table, row)

\* tags.set([tag]) in the place of tags.add(tag)
tags_set(tagset, tag) == {tag}

\* post.tags.add(tag)
tags_add(tagset, tag) == tagset \cup {tag}

\* sorted(comments, key=id): a stable insertion sort
RECURSIVE insert_by_id(_, _)
insert_by_id(sortedSeq, c) ==
    IF sortedSeq = <<>> THEN <<c>>
    ELSE LET last == sortedSeq[Len(sortedSeq)]
         IN  IF last.id <= c.id THEN Append(sortedSeq, c)
             ELSE Append(insert_by_id(SubSeq(sortedSeq, 1, Len(sortedSeq) - 1), c), last)

\* the comments as the document lists them
unsorted(cs) == cs

RECURSIVE sorted_by_id(_)
sorted_by_id(cs) ==
    IF cs = <<>> THEN <<>>
    ELSE insert_by_id(sorted_by_id(SubSeq(cs, 1, Len(cs) - 1)), cs[Len(cs)])

\* the parent of the comment loop: the mapped comment, or None
resolve_parent(comment_map, wp_comment) ==
    IF wp_comment.parent # 0 /\ wp_comment.parent \in DOMAIN comment_map
    THEN comment_map[wp_comment.parent]
    ELSE None

(***************************************************************************)
(* main(): the state of one run.  store0 is the store as the run found it  *)
(* and stage the place a store operation or the parser raised, both kept   *)
(* for the properties only.                                                *)
(***************************************************************************)
NoArgv == [given |-> FALSE, exists |-> FALSE, doc |-> EmptyDoc]
NoSuchFile == [given |-> TRUE, exists |-> FALSE, doc |-> EmptyDoc]
ArgvSet == {NoArgv, NoSuchFile} \cup {[given |-> TRUE, exists |-> TRUE, doc |-> d] : d \in Docs}

NoDoc == BrokenXml

ZeroStats == [tags_created |-> 0, posts_created |-> 0, comments_created |-> 0]

EmptyStore == [users |-> <<>>, tags |-> <<>>, posts |-> <<>>, comments |-> <<>>]

IdleRun ==
    [pc |-> "idle", argv |-> NoArgv, data |-> NoData, default_author |-> None,
     authors |-> <<>>, tag_map |-> <<>>, i |-> 0, pidx |-> 0, k |-> 0,
     content_md |-> "", found |-> None, post |-> None, created |-> FALSE, sorted |-> <<>>, cidx |-> 0,
     comment_map |-> <<>>, parent |-> None, comment |-> None, stats |-> ZeroStats,
     exc |-> "", stage |-> "", now |-> 0, store0 |-> EmptyStore, rerun |-> FALSE]

Stopped == {"idle", "exit_ok", "exit_fail"}

\* an uncaught exception, or sys.exit(1): the process ends with a failure
Exit1(rs, exc, stage) == [rs EXCEPT !.pc = "exit_fail", !.exc = exc, !.stage = stage]

\* the head of the post loop for post i, where its body is converted, or the
\* return of import_data
next_post(rs, i) ==
    IF i <= Len(rs.data.posts)
    THEN [rs EXCEPT !.pc = "post_get", !.pidx = i,
                    !.content_md = html_to_markdown(rs.data.posts[i].content)]
    ELSE [rs EXCEPT !.pc = "summary"]

\* the tag loop from tag i
next_tag(rs, i) ==
    IF i <= Len(rs.data.tags) THEN [rs EXCEPT !.pc = "tags", !.i = i] ELSE next_post(rs, 1)

\* the author loop from author i
next_author(rs, i) ==
    IF i <= Len(rs.data.authors) THEN [rs EXCEPT !.pc = "authors", !.i = i] ELSE next_tag(rs, 1)

\* the comment loop of the current post from sorted comment c
next_comment(rs, c) ==
    IF c <= Len(rs.sorted)
    THEN [rs EXCEPT !.pc = "comment_get", !.cidx = c]
    ELSE next_post(rs, rs.pidx + 1)

\* after the tags of the post: count the post, sort its comments
after_tags(rs) ==
    LET wp_post == rs.data.posts[rs.pidx]
        counted == IF rs.created
                   THEN [rs EXCEPT !.stats.posts_created = @ + 1] ELSE rs
    IN  next_comment([counted EXCEPT !.sorted = sorted_by_id(wp_post.comments),
                                     !.comment_map = <<>>], 1)

\* the `for tag_slug in wp_post['tags']` loop from slug k: the next slug of tag_map
RECURSIVE next_tag_add(_, _)
next_tag_add(rs, k) ==
    LET slugs == rs.data.posts[rs.pidx].tags
    IN  IF k > Len(slugs) THEN after_tags(rs)
        ELSE IF slugs[k] \in DOMAIN rs.tag_map
        THEN [rs EXCEPT !.pc = "post_tags", !.k = k]
        ELSE next_tag_add(rs, k + 1)

\* the end of one pass of the comment loop: map the comment, count it
finish_comment(rs) ==
    LET wp_comment == rs.sorted[rs.cidx]
        mapped == [rs EXCEPT !.comment_map = (wp_comment.id :> rs.comment) @@ @]
        counted == IF rs.created
                   THEN [mapped EXCEPT !.stats.comments_created = @ + 1] ELSE mapped
    IN  next_comment(counted, rs.cidx + 1)

\* whether the store answers: it fails at most MaxFaults times
StoreUp == IF faults < MaxFaults THEN BOOLEAN ELSE {TRUE}

\* a handler that logs a failed author or tag and goes on with the next
on_store_error_skip(rs, exc, stage) ==
    IF stage = "author" THEN next_author([rs EXCEPT !.exc = exc, !.stage = stage], rs.i + 1)
    ELSE IF stage = "tag" THEN next_tag([rs EXCEPT !.exc = exc, !.stage = stage], rs.i + 1)
    ELSE Exit1(rs, exc, stage)

\* import_data has no handler: an exception of a store operation leaves main()
on_store_error(rs, exc, stage) == Exit1(rs, exc, stage)

\* a parser failure taken for an empty document
after_parse_lenient(rs, parsed) ==
    [rs EXCEPT !.pc = "default_author",
               !.data = IF parsed.exc # "" THEN NoData ELSE parsed.value]

\* main() after ET.parse and the three parse_ functions
after_parse(rs, parsed) ==
    IF parsed.exc # "" THEN Exit1(rs, parsed.exc, "parse")
    ELSE [rs EXCEPT !.pc = "default_author", !.data = parsed.value]

\* main()'s two checks of sys.argv
main_args(rs) ==
    IF ~rs.argv.given THEN Exit1(rs, "SystemExit", "usage")
    ELSE IF ~rs.argv.exists THEN Exit1(rs, "SystemExit", "notfound")
    ELSE [rs EXCEPT !.pc = "parse"]

Main(r) ==
    /\ run[r].pc \in Stopped
    /\ clock < MaxClock
    /\ \E argv \in ArgvSet :
         run' = [run EXCEPT ![r] =
                    main_args([IdleRun EXCEPT !.argv = argv, !.now = clock + 1,
                                              !.store0 = store,
                                              !.rerun = argv.exists /\ argv.doc = lastDoc])]
    /\ clock' = clock + 1
    /\ lastDoc' = NoDoc
    /\ UNCHANGED <<tools, users, tags, posts, comments, faults>>

Parse(r) ==
    /\ run[r].pc = "parse"
    /\ run' = [run EXCEPT ![r] = after_parse(@, parse_wordpress_xml(@.argv.doc))]
    /\ UNCHANGED <<tools, users, tags, posts, comments, clock, lastDoc, faults>>

\* User.objects.get_or_create(username='admin', ...)
DefaultAuthor(r) ==
    /\ run[r].pc = "default_author"
    /\ \E up \in StoreUp :
       /\ faults' = IF up THEN faults ELSE faults + 1
       /\ IF ~up
         THEN /\ run' = [run EXCEPT ![r] = on_store_error(@, "OperationalError", "default_author")]
              /\ users' = users
         ELSE LET res == user_get_or_create(users, "admin", Admin)
              IN  /\ users' = res.table
                  /\ run' = [run EXCEPT ![r] = next_author([@ EXCEPT !.default_author = res.pk], 1)]
    /\ UNCHANGED <<tools, tags, posts, comments, clock, lastDoc>>

\* one pass of `for wp_author in data['authors']`
ImportAuthor(r) ==
    /\ run[r].pc = "authors"
    /\ \E up \in StoreUp :
       /\ faults' = IF up THEN faults ELSE faults + 1
       /\ IF ~up
         THEN /\ run' = [run EXCEPT ![r] = on_store_error(@, "OperationalError", "author")]
              /\ users' = users
         ELSE LET wp_author == run[r].data.authors[run[r].i]
                  res == user_get_or_create(users, wp_author.login, author_defaults(wp_author))
              IN  /\ users' = res.table
                  /\ run' = [run EXCEPT ![r] =
                        next_author([@ EXCEPT !.authors = (wp_author.login :> res.pk) @@ @],
                                    @.i + 1)]
    /\ UNCHANGED <<tools, tags, posts, comments, clock, lastDoc>>

\* one pass of `for wp_tag in data['tags']`
ImportTag(r) ==
    /\ run[r].pc = "tags"
    /\ \E up \in StoreUp :
       /\ faults' = IF up THEN faults ELSE faults + 1
       /\ IF ~up
         THEN /\ run' = [run EXCEPT ![r] = on_store_error(@, "OperationalError", "tag")]
              /\ tags' = tags
         ELSE LET wp_tag == run[r].data.tags[run[r].i]
                  res == tag_get_or_create(tags, wp_tag)
                  mapped == [run[r] EXCEPT !.tag_map = (wp_tag.slug :> res.pk) @@ @]
                  counted == IF res.created
                             THEN [mapped EXCEPT !.stats.tags_created = @ + 1] ELSE mapped
              IN  /\ tags' = res.table
                  /\ run' = [run EXCEPT ![r] = next_tag(counted, run[r].i + 1)]
    /\ UNCHANGED <<tools, users, posts, comments, clock, lastDoc>>

NewPost ==
    [wp_post_id |-> None, title |-> "", slug |-> "", content_md |-> "", content_html |-> "",
     excerpt |-> "", featured_image |-> None, status |-> "draft",
     author |-> None, published_at |-> NoTime, tags |-> {}]

\* defaults that give every post to the default author
post_defaults_admin(rs) ==
    LET wp_post == rs.data.posts[rs.pidx]
    IN  [title |-> wp_post.title,
         slug |-> IF wp_post.slug # "" THEN wp_post.slug ELSE slugify(wp_post.title),
         content_md |-> rs.content_md,
         excerpt |-> wp_post.excerpt,
         status |-> IF wp_post.status \in {"published", "draft", "scheduled"}
                    THEN wp_post.status ELSE "draft",
         author |-> rs.default_author,
         published_at |-> wp_post.published_at]

\* the defaults of Post.objects.update_or_create for the post of the loop
post_defaults(rs) ==
    LET wp_post == rs.data.posts[rs.pidx]
    IN  [title |-> wp_post.title,
         slug |-> IF wp_post.slug # "" THEN wp_post.slug ELSE slugify(wp_post.title),
         content_md |-> rs.content_md,
         excerpt |-> wp_post.excerpt,
         status |-> IF wp_post.status \in {"published", "draft", "scheduled"}
                    THEN wp_post.status ELSE "draft",
         author |-> IF wp_post.author \in DOMAIN rs.authors
                    THEN rs.authors[wp_post.author] ELSE rs.default_author,
         published_at |-> wp_post.published_at]

\* setattr of the defaults on the row, which then goes through Post.save
with_defaults(row, d) ==
    [row EXCEPT !.title = d.title, !.slug = d.slug, !.content_md = d.content_md,
                !.excerpt = d.excerpt,
                !.status = d.status, !.author = d.author,
                !.published_at = d.published_at]

\* update_or_create, first half: get(wp_post_id=...)
PostGet(r) ==
    /\ run[r].pc = "post_get"
    /\ \E up \in StoreUp :
       /\ faults' = IF up THEN faults ELSE faults + 1
       /\ LET hit == post_matches(posts, run[r].data.posts[run[r].pidx].id)
         IN  run' = [run EXCEPT ![r] =
                IF ~up THEN on_store_error(@, "OperationalError", "post")
                ELSE IF Cardinality(hit) > 1
                THEN on_store_error(@, "MultipleObjectsReturned", "post")
                ELSE [@ EXCEPT !.pc = "post_write",
                               !.found = IF hit = {} THEN None ELSE CHOOSE pk \in hit : TRUE]]
    /\ UNCHANGED <<tools, users, tags, posts, comments, clock, lastDoc>>

\* update_or_create, second half: create the row, or update the row found.
\* A create that the unique index refuses is followed by a second get: the
\* row another process inserted meanwhile is updated in its place.
PostWrite(r) ==
    /\ run[r].pc = "post_write"
    /\ \E up \in StoreUp :
       /\ faults' = IF up THEN faults ELSE faults + 1
       /\ LET rs == run[r]
             again == post_matches(posts, rs.data.posts[rs.pidx].id)
             found == IF rs.found = None /\ Cardinality(again) = 1
                         /\ slug_taken(posts, Len(posts) + 1,
                                       Post_save(posts, Len(posts) + 1,
                                                 with_defaults(NewPost, post_defaults(rs)),
                                                 rs.now))
                      THEN CHOOSE p \in again : TRUE
                      ELSE rs.found
             pk == IF found = None THEN Len(posts) + 1 ELSE found
             row == IF found = None
                    THEN [NewPost EXCEPT !.wp_post_id = rs.data.posts[rs.pidx].id]
                    ELSE posts[found]
             obj == Post_save(posts, pk, with_defaults(row, post_defaults(rs)), rs.now)
         IN  IF ~up
             THEN /\ run' = [run EXCEPT ![r] = on_store_error(@, "OperationalError", "post")]
                  /\ posts' = posts
             ELSE IF slug_taken(posts, pk, obj)
             THEN /\ run' = [run EXCEPT ![r] = on_store_error(@, "IntegrityError", "post")]
                  /\ posts' = posts
             ELSE /\ posts' = put(posts, pk, obj)
                  /\ run' = [run EXCEPT ![r] =
                        next_tag_add([@ EXCEPT !.post = pk, !.created = (found = None)], 1)]
    /\ UNCHANGED <<tools, users, tags, comments, clock, lastDoc>>

\* one post.tags.add(tag_map[tag_slug])
PostTags(r) ==
    /\ run[r].pc = "post_tags"
    /\ \E up \in StoreUp :
       /\ faults' = IF up THEN faults ELSE faults + 1
       /\ LET rs == run[r]
             tag == rs.tag_map[rs.data.posts[rs.pidx].tags[rs.k]]
         IN  IF ~up
             THEN /\ run' = [run EXCEPT ![r] = on_store_error(@, "OperationalError", "post_tags")]
                  /\ posts' = posts
             ELSE /\ posts' = [posts EXCEPT ![rs.post].tags = tags_add(@, tag)]
                  /\ run' = [run EXCEPT ![r] = next_tag_add(@, rs.k + 1)]
    /\ UNCHANGED <<tools, users, tags, comments, clock, lastDoc>>

\* the parent of the comment, then update_or_create's get(wp_comment_id=...)
CommentGet(r) ==
    /\ run[r].pc = "comment_get"
    /\ \E up \in StoreUp :
       /\ faults' = IF up THEN faults ELSE faults + 1
       /\ LET wp_comment == run[r].sorted[run[r].cidx]
             hit == comment_matches(comments, wp_comment.id)
         IN  run' = [run EXCEPT ![r] =
                IF ~up THEN on_store_error(@, "OperationalError", "comment")
                ELSE IF Cardinality(hit) > 1
                THEN on_store_error(@, "MultipleObjectsReturned", "comment")
                ELSE [@ EXCEPT !.pc = "comment_write",
                               !.parent = resolve_parent(run[r].comment_map, wp_comment),
                               !.found = IF hit = {} THEN None ELSE CHOOSE pk \in hit : TRUE]]
    /\ UNCHANGED <<tools, users, tags, posts, comments, clock, lastDoc>>

\* update_or_create of the comment: create (created_at is the time of the
\* insert), or update the row found (created_at is not among the defaults)
CommentWrite(r) ==
    /\ run[r].pc = "comment_write"
    /\ \E up \in StoreUp :
       /\ faults' = IF up THEN faults ELSE faults + 1
       /\ LET rs == run[r]
             wp_comment == rs.sorted[rs.cidx]
             pk == IF rs.found = None THEN Len(comments) + 1 ELSE rs.found
             row == [wp_comment_id |-> wp_comment.id,
                     post |-> rs.post,
                     parent |-> rs.parent,
                     author_name |-> wp_comment.author_name,
                     author_email |-> wp_comment.author_email,
                     content |-> wp_comment.content,
                     status |-> IF wp_comment.status \in {"approved", "pending", "spam"}
                                THEN wp_comment.status ELSE "pending",
                     created_at |-> IF rs.found = None THEN Now(rs.now)
                                    ELSE comments[rs.found].created_at]
             done == [rs EXCEPT !.comment = pk, !.created = (rs.found = None)]
         IN  IF ~up
             THEN /\ run' = [run EXCEPT ![r] = on_store_error(@, "OperationalError", "comment")]
                  /\ comments' = comments
             ELSE /\ comments' = put(comments, pk, row)
                  /\ run' = [run EXCEPT ![r] =
                        IF wp_comment.created_at.k # "none" /\ done.created
                        THEN [done EXCEPT !.pc = "comment_ts"]
                        ELSE finish_comment(done)]
    /\ UNCHANGED <<tools, users, tags, posts, clock, lastDoc>>

\* Comment.objects.filter(pk=comment.pk).update(created_at=...)
CommentTs(r) ==
    /\ run[r].pc = "comment_ts"
    /\ \E up \in StoreUp :
       /\ faults' = IF up THEN faults ELSE faults + 1
       /\ LET rs == run[r]
         IN  IF ~up
             THEN /\ run' = [run EXCEPT ![r] = on_store_error(@, "OperationalError", "comment")]
                  /\ comments' = comments
             ELSE /\ comments' = [comments EXCEPT ![rs.comment].created_at =
                                        rs.sorted[rs.cidx].created_at]
                  /\ run' = [run EXCEPT ![r] = finish_comment(@)]
    /\ UNCHANGED <<tools, users, tags, posts, clock, lastDoc>>

\* import_data returns; main() prints the summary and ends
Summary(r) ==
    /\ run[r].pc = "summary"
    /\ run' = [run EXCEPT ![r].pc = "exit_ok"]
    /\ lastDoc' = run[r].argv.doc
    /\ UNCHANGED <<tools, users, tags, posts, comments, clock, faults>>

(***************************************************************************)
(* The editor (staff only), between runs of the import.  PostForm has no   *)
(* wp_post_id field; its validation refuses a slug another post has.  The  *)
(* processes that have ended are forgotten when the editor writes.         *)
(***************************************************************************)
\* the posts made through the editor form
EditorPosts == {pk \in Pks(posts) : posts[pk].wp_post_id = None}

Quiet == \A r \in Runs : run[r].pc \in Stopped

\* post_create: form.save(commit=False), author, post.save(), form.save_m2m()
PostCreate ==
    /\ Quiet
    /\ clock < MaxClock
    /\ Cardinality(EditorPosts) < MaxEditorPosts
    /\ \E u \in Pks(users), st \in {"draft", "published"} :
         LET slug == IF EditorPosts = {} THEN "hello-world" ELSE "my-notes"
             pk == Len(posts) + 1
             obj == Post_save(posts, pk,
                              [NewPost EXCEPT !.title = "Hello World", !.slug = slug,
                                              !.status = st, !.author = u],
                              clock)
         IN  /\ users[u].is_staff
             /\ ~slug_taken(posts, pk, obj)
             /\ posts' = put(posts, pk, obj)
    /\ lastDoc' = NoDoc
    /\ run' = [r \in Runs |-> IdleRun]
    /\ UNCHANGED <<tools, users, tags, comments, clock, faults>>

\* post_edit of a post of the signed-in user: one more tag is ticked
PostEdit ==
    /\ Quiet
    /\ clock < MaxClock
    /\ \E pk \in Pks(posts), t \in Pks(tags) :
         LET obj == Post_save(posts, pk, [posts[pk] EXCEPT !.tags = @ \cup {t}], clock)
         IN  /\ users[posts[pk].author].is_staff
             /\ ~slug_taken(posts, pk, obj)
             /\ obj # posts[pk]
             /\ posts' = put(posts, pk, obj)
    /\ lastDoc' = NoDoc
    /\ run' = [r \in Runs |-> IdleRun]
    /\ UNCHANGED <<tools, users, tags, comments, clock, faults>>

IdleDl ==
    [pc |-> "idle", domain |-> "", rows |-> <<>>, queue |-> <<>>, post |-> None,
     image_urls |-> <<>>, u |-> 0, new_content |-> "", downloaded |-> 0, total |-> 0,
     log |-> <<>>, images0 |-> <<>>]

IdleFe == [pc |-> "idle", rows |-> <<>>, queue |-> <<>>, updated |-> 0, log |-> <<>>]

\* the cover task: its state in the result backend, the attempts made (log),
\* the posts as they were when it was queued and the last answer of check_task
IdleGen ==
    [pc |-> "idle", post_id |-> None, retries |-> 0, result |-> None, log |-> <<>>,
     posts0 |-> <<>>, seen |-> ""]

\* the transcoder on its own: the text, its Markdown, and the Markdown of that;
\* pass by pass, the pass that comes next and the text before the last one
IdleTx == [pc |-> "idle", html |-> "", md |-> "", again |-> "", k |-> 0, prev |-> ""]

(***************************************************************************)
(* The specification: one operator runs the import, time after time.       *)
(***************************************************************************)
Init ==
    /\ users = <<>>
    /\ tags = <<>>
    /\ posts = <<>>
    /\ comments = <<>>
    /\ clock = 0
    /\ run = [r \in Runs |-> IdleRun]
    /\ lastDoc = NoDoc
    /\ faults = 0
    /\ images = <<>>
    /\ dl = IdleDl
    /\ fe = IdleFe
    /\ net = {}
    /\ gen = IdleGen
    /\ tx = IdleTx

RunStep(r) ==
    \/ Main(r)
    \/ Parse(r)
    \/ DefaultAuthor(r)
    \/ ImportAuthor(r)
    \/ ImportTag(r)
    \/ PostGet(r)
    \/ PostWrite(r)
    \/ PostTags(r)
    \/ CommentGet(r)
    \/ CommentWrite(r)
    \/ CommentTs(r)
    \/ Summary(r)

Next ==
    \/ RunStep(1)
    \/ PostCreate
    \/ PostEdit

Spec == Init /\ [][Next]_vars

(***************************************************************************)
(* Two runs of the import at once, over the same document: two processes   *)
(* started from two shells.  Every store operation is one step of its      *)
(* process, and the steps of the two interleave in every way.              *)
(***************************************************************************)
ParDocs ==
    {ScenarioDoc, StdDoc(<<[BaseItem(1) EXCEPT !.comments = <<Com(1, 0)>>], BaseItem(2)>>)}

\* both processes enter main() with the same file
MainBoth ==
    /\ \A r \in Runs : run[r].pc = "idle"
    /\ \E d \in ParDocs :
         run' = [r \in Runs |->
                    main_args([IdleRun EXCEPT !.argv = [given |-> TRUE, exists |-> TRUE, doc |-> d],
                                              !.now = clock + 1, !.store0 = store])]
    /\ clock' = clock + 1
    /\ lastDoc' = NoDoc
    /\ UNCHANGED <<tools, users, tags, posts, comments, faults>>

ParStep(r) ==
    \/ Parse(r)
    \/ DefaultAuthor(r)
    \/ ImportAuthor(r)
    \/ ImportTag(r)
    \/ PostGet(r)
    \/ PostWrite(r)
    \/ PostTags(r)
    \/ CommentGet(r)
    \/ CommentWrite(r)
    \/ CommentTs(r)
    \/ Summary(r)

NextPar ==
    \/ MainBoth
    \/ ParStep(1)
    \/ ParStep(2)

SpecPar == Init /\ [][NextPar]_vars

(***************************************************************************)
(* The media tools.  images is the Image table; a file is stored under     *)
(* MEDIA_ROOT by its name and served under MEDIA_URL (the year and month   *)
(* directories of upload_to are left out of the names).  net is every      *)
(* request that went out to the network, with the reference it was made    *)
(* for.  A tool runs when no other run of a tool or of the import is       *)
(* under way.                                                              *)
(***************************************************************************)
MEDIA_URL == "/uploads/"
upload_to == "images/"

Domain == "w.io"

\* os.path.splitext: the name up to its last dot, and the rest
splitext(name) ==
    LET dot == rfind(name, ".", Len(name))
    IN  IF dot <= 1 THEN <<name, "">>
        ELSE <<SubSeq(name, 1, dot - 1), From(name, dot)>>

\* Storage.get_available_name: the name, or the name with a suffix no stored
\* file has (Django draws seven random characters; here the count of images)
storage_save(imgs, filename) ==
    LET name == upload_to \o filename
    IN  IF \E pk \in Pks(imgs) : imgs[pk].file = name
        THEN upload_to \o splitext(filename)[1] \o "_" \o ToString(Len(imgs))
                       \o splitext(filename)[2]
        ELSE name

\* Image(file=ContentFile(bytes, name=filename), original_name=filename).save()
new_image(imgs, filename) ==
    [file |-> storage_save(imgs, filename), original_name |-> filename]

\* image.file.url
file_url(image) == MEDIA_URL \o image.file

\* Post.objects.all() under Meta.ordering: the posts here have no
\* publication date, so the newest row comes first
RECURSIVE newest_first(_)
newest_first(pks) ==
    IF pks = {} THEN <<>>
    ELSE LET top == Last(pks) IN <<top>> \o newest_first(pks \ {top})

\* the lists that hold each member of S once
RECURSIVE Orders(_)
Orders(S) ==
    IF S = {} THEN {<<>>}
    ELSE UNION {{<<x>> \o rest : rest \in Orders(S \ {x})} : x \in S}

\* list(urls) of a set of str: the order is that of the hashes, which change
\* from one process to the next
list_of_set(urls) == Orders(urls)

ToolsQuiet == dl.pc \in Stopped /\ fe.pc \in Stopped /\ Quiet

\* download_images.py, main(): the argument, then the posts of the store
DlMain ==
    /\ ToolsQuiet
    /\ clock < MaxClock
    /\ clock' = clock + 1
    /\ \E given \in BOOLEAN :
         dl' = IF ~given THEN [IdleDl EXCEPT !.pc = "exit_fail"]
               ELSE [IdleDl EXCEPT !.pc = IF posts = <<>> THEN "exit_ok" ELSE "post",
                                   !.domain = Domain, !.rows = posts,
                                   !.queue = newest_first(Pks(posts)),
                                   !.images0 = images]
    /\ UNCHANGED <<users, tags, posts, comments, run, lastDoc, faults, images, fe, net, tx, gen>>

\* the head of process_post_images for the next post of the loop
DlPost ==
    /\ dl.pc = "post"
    /\ LET pk == Head(dl.queue)
           content == dl.rows[pk].content_md
       IN  \E image_urls \in list_of_set(extract_image_urls(content, dl.domain)) :
             dl' = [dl EXCEPT !.pc = IF image_urls = <<>> THEN "save" ELSE "fetch",
                              !.post = pk, !.queue = Tail(@), !.image_urls = image_urls,
                              !.u = 1, !.new_content = content, !.downloaded = 0]
    /\ UNCHANGED <<users, tags, posts, comments, clock, run, lastDoc, faults, images, fe, net, tx, gen>>

\* the URL download_image of download_images.py asks the network for
dl_request(url, base_url) == IF starts(url, "/", 1) THEN urljoin(base_url, url) ELSE url

\* one pass of `for url in image_urls`: download_image, and when it returned
\* the bytes, the Image and the replacement in new_content
DlFetch ==
    /\ dl.pc = "fetch"
    /\ LET url == dl.image_urls[dl.u]
           asked == dl_request(url, "https://" \o dl.domain)
           image == new_image(images, basename(url_path(asked)))
           next == [dl EXCEPT !.pc = IF dl.u < Len(dl.image_urls) THEN "fetch" ELSE "save",
                              !.u = @ + 1]
       IN  /\ net' = net \cup {[tool |-> "download_images", ref |-> url, url |-> asked]}
           /\ \E ok \in BOOLEAN :
                IF ok
                THEN /\ images' = Append(images, image)
                     /\ dl' = [next EXCEPT
                                 !.new_content = replace(@, url, file_url(image)),
                                 !.downloaded = @ + 1,
                                 !.log = Append(@, [post |-> dl.post, url |-> url, ok |-> TRUE,
                                                    new_url |-> file_url(image)])]
                ELSE /\ images' = images
                     /\ dl' = [next EXCEPT
                                 !.log = Append(@, [post |-> dl.post, url |-> url, ok |-> FALSE,
                                                    new_url |-> ""])]
    /\ UNCHANGED <<users, tags, posts, comments, clock, run, lastDoc, faults, fe, tx, gen>>

\* the end of process_post_images: post.save() when the body changed; then
\* the next post, or the last line of main()
DlSave ==
    /\ dl.pc = "save"
    /\ LET row == dl.rows[dl.post]
           obj == Post_save(posts, dl.post, [row EXCEPT !.content_md = dl.new_content], clock)
       IN  posts' = IF dl.new_content # row.content_md THEN put(posts, dl.post, obj) ELSE posts
    /\ dl' = [dl EXCEPT !.pc = IF dl.queue = <<>> THEN "exit_ok" ELSE "post",
                        !.total = @ + dl.downloaded]
    /\ UNCHANGED <<users, tags, comments, clock, run, lastDoc, faults, images, fe, net, tx, gen>>

\* find_existing_image: the newest Image with the file name of the URL for
\* its original name, or else in its file name; None when there is none
find_existing_image(imgs, url) ==
    LET filename == basename(url_path(url))
        named == {pk \in Pks(imgs) : imgs[pk].original_name = filename}
        filed == {pk \in Pks(imgs) : contains(imgs[pk].file, filename)}
    IN  IF filename = "" THEN None
        ELSE IF named # {} THEN Last(named)
        ELSE Last(filed)

\* extract_featured_images.py, main(): the posts without a featured image
FeMain ==
    /\ ToolsQuiet
    /\ clock < MaxClock
    /\ clock' = clock + 1
    /\ LET todo == {pk \in Pks(posts) : posts[pk].featured_image = None}
       IN  fe' = [IdleFe EXCEPT !.pc = IF todo = {} THEN "exit_ok" ELSE "post",
                                !.rows = posts, !.queue = newest_first(todo)]
    /\ UNCHANGED <<users, tags, posts, comments, run, lastDoc, faults, images, dl, net, tx, gen>>

\* how download_image of extract_featured_images.py gets at the bytes
fe_source(url) ==
    IF starts(url, "data:", 1) THEN "data"
    ELSE IF starts(url, "/", 1) THEN "disk"
    ELSE "network"

\* process_post for the next post of the loop
FePost ==
    /\ fe.pc = "post"
    /\ LET pk == Head(fe.queue)
           row == fe.rows[pk]
           in_html == extract_first_image_url(row.content_html)
           image_url == IF in_html # "" THEN in_html ELSE extract_first_image_url(row.content_md)
           existing == find_existing_image(images, image_url)
           image == new_image(images, basename(url_path(image_url)))
           done(how, ok) ==
               [fe EXCEPT !.pc = IF Tail(fe.queue) = <<>> THEN "exit_ok" ELSE "post",
                          !.queue = Tail(@),
                          !.updated = IF ok THEN @ + 1 ELSE @,
                          !.log = Append(@, [post |-> pk, url |-> image_url, how |-> how,
                                             ok |-> ok])]
       IN  IF image_url = ""
           THEN /\ fe' = done("none", FALSE)
                /\ UNCHANGED <<posts, images, net, gen>>
           ELSE IF existing # None
           THEN /\ posts' = [posts EXCEPT ![pk].featured_image = existing]
                /\ fe' = done("existing", TRUE)
                /\ UNCHANGED <<images, net, gen>>
           ELSE /\ net' = IF fe_source(image_url) = "network"
                          THEN net \cup {[tool |-> "extract_featured_images",
                                          ref |-> image_url, url |-> image_url]}
                          ELSE net
                /\ \E ok \in IF fe_source(image_url) = "data" THEN {FALSE} ELSE BOOLEAN :
                     IF ok
                     THEN /\ images' = Append(images, image)
                          /\ posts' = [posts EXCEPT ![pk].featured_image = Len(images) + 1]
                          /\ fe' = done(fe_source(image_url), TRUE)
                     ELSE /\ fe' = done(fe_source(image_url), FALSE)
                          /\ UNCHANGED <<posts, images, gen>>
    /\ UNCHANGED <<users, tags, comments, clock, run, lastDoc, faults, dl, tx, gen>>

\* bodies with references to images of the old site, by URL and by path
MediaBodies ==
    {"no image",
     "![](https://w.io/a.png)",
     "![x](/a.png)",
     "![](/a.png) ![](https://w.io/a.png)",
     "![](https://w.io/a.png)<img src='/b.png'>",
     "![](https://w.io/a.png)![y](https://w.io/a.png)",
     "![](https://x.org/c.png)",
     "![](data:abc)"}

MediaPost(k, body) ==
    [NewPost EXCEPT !.title = "Hello World", !.slug = "post-" \o ToString(k),
                    !.content_md = body, !.content_html = render_markdown(body),
                    !.author = 1]

\* the stores the tools find: an author and up to MaxPosts posts, written
\* through the editor
MediaStores ==
    {[k \in DOMAIN bodies |-> MediaPost(k, bodies[k])] :
        bodies \in SeqsUpTo(MediaBodies, MaxPosts) \ {<<>>}}

InitMedia ==
    /\ users = <<Admin>>
    /\ tags = <<>>
    /\ posts \in MediaStores
    /\ comments = <<>>
    /\ clock = 0
    /\ run = [r \in Runs |-> IdleRun]
    /\ lastDoc = NoDoc
    /\ faults = 0
    /\ images = <<>>
    /\ dl = IdleDl
    /\ fe = IdleFe
    /\ net = {}
    /\ gen = IdleGen
    /\ tx = IdleTx

NextMedia ==
    \/ DlMain
    \/ DlPost
    \/ DlFetch
    \/ DlSave
    \/ FeMain
    \/ FePost

SpecMedia == InitMedia /\ [][NextMedia]_vars

(***************************************************************************)
(* The transcoder on its own: a text goes through html_to_markdown, and    *)
(* what comes out goes through it once more.                               *)
(***************************************************************************)
\* the pieces the texts are put together from
Fragments == {"<h1>", "</h1>", "<p>", "</p>", "<b>", "<br>", "Hi", " ", "\n\n", "<", ">"}

RECURSIVE concat(_)
concat(pieces) == IF pieces = <<>> THEN "" ELSE Head(pieces) \o concat(Tail(pieces))

\* one text for each pass of the transcoder
Examples ==
    {"<h1>Hi</h1><p>World</p>", "<h2 id=\"x\">a</h2><h3>b</h3><h4>c</h4>",
     "<strong>a</strong><em>b</em><i>c</i>", "<a href=\"u\">t</a>",
     "<img src=\"s\" alt=\"a\"/><img src=\"s\">", "<ul><li>a</li></ul><ol><li>b</li></ol>",
     "<pre><code>x</code></pre><code>y</code>", "<blockquote> a\nb </blockquote>",
     "a<br />b<hr/>c", "<div>x</div>", "a\n\n\n\nb", " a \n", "# Hi\n\nWorld\n\n"}

Htmls == {concat(pieces) : pieces \in SeqsUpTo(Fragments, MaxFragments)} \cup Examples

InitT ==
    /\ users = <<>>
    /\ tags = <<>>
    /\ posts = <<>>
    /\ comments = <<>>
    /\ clock = 0
    /\ run = [r \in Runs |-> IdleRun]
    /\ lastDoc = NoDoc
    /\ faults = 0
    /\ images = <<>>
    /\ dl = IdleDl
    /\ fe = IdleFe
    /\ net = {}
    /\ gen = IdleGen
    /\ tx \in {[IdleTx EXCEPT !.pc = "html", !.html = h] : h \in Htmls}

\* content_md = html_to_markdown(wp_post['content'])
Transcode ==
    /\ tx.pc = "html"
    /\ tx' = [tx EXCEPT !.pc = "md", !.md = html_to_markdown(tx.html)]
    /\ UNCHANGED <<users, tags, posts, comments, clock, run, lastDoc, faults, images, dl, fe, net, gen>>

\* the Markdown of a first conversion, converted again
Retranscode ==
    /\ tx.pc = "md"
    /\ tx' = [tx EXCEPT !.pc = "again", !.again = html_to_markdown(tx.md)]
    /\ UNCHANGED <<users, tags, posts, comments, clock, run, lastDoc, faults, images, dl, fe, net, gen>>

NextT == Transcode \/ Retranscode

SpecT == InitT /\ [][NextT]_vars

(***************************************************************************)
(* The transcoder pass by pass: md is the accumulated text, every step is  *)
(* one re.sub of html_to_markdown over it, the last step is md.strip().    *)
(***************************************************************************)
\* texts with none of the characters the replacements write
PassTexts ==
    {"<h1>Hi</h1><p>World</p>", "<h2>a</h2><h3>b</h3><h4>c</h4>",
     "<strong>a</strong><em>b</em><i>c</i>", "<a href=\"u\">t</a>",
     "<img src=\"s\" alt=\"a\"/><img src=\"s\">", "<ul><li>a</li></ul><ol><li>b</li></ol>",
     "<pre><code>x</code></pre><code>y</code>", "<blockquote> a </blockquote>",
     "a<br />b<hr/>c", "<div>x</div>", "1 < 2 <b>x</b> 3 > 2", "<span <li>x</li>>"}

InitP ==
    /\ users = <<>>
    /\ tags = <<>>
    /\ posts = <<>>
    /\ comments = <<>>
    /\ clock = 0
    /\ run = [r \in Runs |-> IdleRun]
    /\ lastDoc = NoDoc
    /\ faults = 0
    /\ images = <<>>
    /\ dl = IdleDl
    /\ fe = IdleFe
    /\ net = {}
    /\ gen = IdleGen
    /\ tx \in {[IdleTx EXCEPT !.pc = "passes", !.html = h, !.md = h, !.k = 1] : h \in PassTexts}

\* md = re.sub(pattern, repl, md) for the next pattern of the function
PassStep ==
    /\ tx.pc = "passes"
    /\ tx.k <= Len(Passes)
    /\ tx' = [tx EXCEPT !.prev = tx.md, !.md = re_sub(Passes[tx.k], tx.md), !.k = @ + 1]
    /\ UNCHANGED <<users, tags, posts, comments, clock, run, lastDoc, faults, images, dl, fe, net, gen>>

\* md = md.strip(), and the return
PassStrip ==
    /\ tx.pc = "passes"
    /\ tx.k > Len(Passes)
    /\ tx' = [tx EXCEPT !.prev = tx.md, !.md = strip(tx.md), !.pc = "md"]
    /\ UNCHANGED <<users, tags, posts, comments, clock, run, lastDoc, faults, images, dl, fe, net, gen>>

NextP == PassStep \/ PassStrip

SpecP == InitP /\ [][NextP]_vars

(***************************************************************************)
(* The cover-image task (imagen/tasks.py), a Celery task with              *)
(* max_retries=3.  pc is the state of the task: queued, retry (waiting     *)
(* for its next attempt), success or failure.  An attempt is one step: the *)
(* worker runs one task at a time.                                         *)
(***************************************************************************)
max_retries == 3

\* the stores the task finds: an author and one or two posts
GenStores ==
    {<<MediaPost(1, "no image")>>, <<MediaPost(1, "no image"), MediaPost(2, "![x](/a.png)")>>}

\* what the body of the task meets after it found the post: the service gives
\* an image and both saves go through, the service gives none, or the
\* service, image.save() or post.save() raises
Outcomes == {"stored", "empty", "generate_raises", "image_save_raises", "post_save_raises"}

\* an exception caught by `except Exception`, and an empty answer too
raises_or_empty(outcome) == outcome # "stored"

\* the outcomes that end in `except Exception`
raises(outcome) ==
    outcome \in {"generate_raises", "image_save_raises", "post_save_raises"}

\* the image of an outcome is in the table: image.save() returned
image_saved(outcome) == outcome \in {"stored", "post_save_raises"}

\* image = create_image_from_bytes(image_bytes, "cover-<slug>-<uuid>.png", ...)
cover_image(imgs, slug) ==
    new_image(imgs, "cover-" \o slug \o "-" \o ToString(Len(imgs)) \o ".png")

InitGen ==
    /\ users = <<Admin>>
    /\ tags = <<>>
    /\ posts \in GenStores
    /\ comments = <<>>
    /\ clock = 0
    /\ run = [r \in Runs |-> IdleRun]
    /\ lastDoc = NoDoc
    /\ faults = 0
    /\ images = <<>>
    /\ dl = IdleDl
    /\ fe = IdleFe
    /\ net = {}
    /\ gen = IdleGen
    /\ tx = IdleTx

\* generate_cover_image.delay(post_id, ...): the view queues the task for a
\* post; the id of a post that is gone when the worker runs has no row
Delay ==
    /\ gen.pc = "idle"
    /\ \E post_id \in 1..(Len(posts) + 1) :
         gen' = [IdleGen EXCEPT !.pc = "queued", !.post_id = post_id, !.posts0 = posts]
    /\ UNCHANGED <<users, tags, posts, comments, clock, run, lastDoc, faults, images, dl, fe, net, tx>>

\* self.retry(exc=e, countdown=60): one more attempt, or the exception e when
\* max_retries attempts were retried already
retry(g) ==
    IF g.retries < max_retries
    THEN [g EXCEPT !.pc = "retry", !.retries = @ + 1]
    ELSE [g EXCEPT !.pc = "failure"]

\* one execution of generate_cover_image by the worker
CoverAttempt ==
    /\ gen.pc \in {"queued", "retry"}
    /\ IF gen.post_id \notin Pks(posts)
       THEN /\ gen' = [gen EXCEPT !.pc = "success", !.result = None,
                                  !.log = Append(@, [outcome |-> "missing", image |-> None])]
            /\ UNCHANGED <<posts, images>>
       ELSE \E outcome \in Outcomes :
              LET image == cover_image(images, posts[gen.post_id].slug)
                  pk == Len(images) + 1
                  logged == [gen EXCEPT !.log = Append(@, [outcome |-> outcome,
                                                          image |-> IF image_saved(outcome)
                                                                    THEN pk ELSE None])]
              IN  /\ images' = IF image_saved(outcome) THEN Append(images, image) ELSE images
                  /\ posts' = IF outcome = "stored"
                              THEN [posts EXCEPT ![gen.post_id].featured_image = pk]
                              ELSE posts
                  /\ gen' = IF raises(outcome) THEN retry(logged)
                            ELSE [logged EXCEPT !.pc = "success",
                                                !.result = IF outcome = "stored" THEN pk ELSE None]
    /\ UNCHANGED <<users, tags, comments, clock, run, lastDoc, faults, dl, fe, net, tx>>

\* check_task: what the view answers for the task
task_status(g) ==
    IF g.pc = "success" /\ g.result # None THEN "image"
    ELSE IF g.pc = "success" THEN "ready"
    ELSE IF g.pc = "failure" THEN "error"
    ELSE "not ready"

CheckTask ==
    /\ gen.pc # "idle"
    /\ gen.seen # task_status(gen)
    /\ gen' = [gen EXCEPT !.seen = task_status(gen)]
    /\ UNCHANGED <<users, tags, posts, comments, clock, run, lastDoc, faults, images, dl, fe, net, tx>>

NextGen ==
    \/ Delay
    \/ CoverAttempt
    \/ CheckTask

SpecGen == InitGen /\ [][NextGen]_vars

(***************************************************************************)
(* Properties.                                                             *)
(***************************************************************************)
Ended(r) == run[r].pc \in {"exit_ok", "exit_fail"}

\* C1: a run of main() on the document of the run before it, which ended
\* with the summary, leaves the store as it found it and reports nothing
\* created.
C1_SecondRunChangesNothing ==
    \A r \in Runs :
        (run[r].pc = "exit_ok" /\ run[r].rerun) =>
            (store = run[r].store0 /\ run[r].stats = ZeroStats)

\* C2: no two posts of the store have the same non-null wp_post_id.
C2_OnePostPerSourceId ==
    \A p, q \in Pks(posts) :
        (p # q /\ posts[p].wp_post_id # None) => posts[p].wp_post_id # posts[q].wp_post_id

\* C2's case: a run has just updated the post its source id matched
C2_Witness ==
    \E r \in Runs :
        /\ run[r].pc = "exit_ok"
        /\ Len(run[r].data.posts) > 0
        /\ run[r].stats.posts_created = 0
        /\ \E pk \in Pks(posts) : posts[pk].wp_post_id = run[r].data.posts[1].id

\* the places <<post, position>> of the parsed document where comment id is listed
Listed(data, id) ==
    {pl \in (DOMAIN data.posts) \X (1..MaxComments) :
        /\ pl[2] <= Len(data.posts[pl[1]].comments)
        /\ data.posts[pl[1]].comments[pl[2]].id = id}

\* the row of the comment with this source id
StoredComment(id) == CHOOSE pk \in Pks(comments) : comments[pk].wp_comment_id = id

\* what the claim says the parent of comment c of parsed post wp_post is
DeclaredParent(wp_post, c) ==
    IF /\ c.parent # 0
       /\ c.parent < c.id
       /\ \E j \in DOMAIN wp_post.comments : wp_post.comments[j].id = c.parent
    THEN StoredComment(c.parent)
    ELSE None

\* C3 as claimed: after a run that ended with the summary, every comment of
\* every post of the document has the parent of the rule: the comment with
\* the declared parent id when that id is lower and among the post's
\* comments, none otherwise.
C3_ParentAsDeclared ==
    \A r \in Runs :
        run[r].pc = "exit_ok" =>
            \A i \in DOMAIN run[r].data.posts :
                \A j \in DOMAIN run[r].data.posts[i].comments :
                    LET c == run[r].data.posts[i].comments[j]
                    IN  comments[StoredComment(c.id)].parent
                            = DeclaredParent(run[r].data.posts[i], c)

\* C3 as amended: the same, for the comments whose source id the document
\* lists once.
C3_ParentAsDeclaredOnce ==
    \A r \in Runs :
        run[r].pc = "exit_ok" =>
            \A i \in DOMAIN run[r].data.posts :
                \A j \in DOMAIN run[r].data.posts[i].comments :
                    LET c == run[r].data.posts[i].comments[j]
                    IN  Cardinality(Listed(run[r].data, c.id)) = 1 =>
                            comments[StoredComment(c.id)].parent
                                = DeclaredParent(run[r].data.posts[i], c)

\* C3's case: the reply was listed before its parent and is stored under it
C3_Witness ==
    \E r \in Runs :
        /\ run[r].pc = "exit_ok"
        /\ \E i \in DOMAIN run[r].data.posts :
             LET cl == run[r].data.posts[i].comments
             IN  /\ Len(cl) = 2
                 /\ cl[1].id > cl[2].id
                 /\ cl[1].parent = cl[2].id
                 /\ comments[StoredComment(cl[1].id)].parent = StoredComment(cl[2].id)

\* does following the parent links from pk end at a root within n links
RECURSIVE ReachesRoot(_, _)
ReachesRoot(pk, n) ==
    IF comments[pk].parent = None THEN TRUE
    ELSE IF n = 0 THEN FALSE
    ELSE ReachesRoot(comments[pk].parent, n - 1)

\* C4: the parent links of the stored comments have no cycle: from every
\* comment they lead to a root.
C4_NoCycle == \A pk \in Pks(comments) : ReachesRoot(pk, Len(comments))

\* a step of a run of main(), as opposed to a step of the editor
ImportStep == \E r \in Runs : run'[r] # run[r] /\ run'[r].pc # "idle"

\* C5: no step of an import run takes a tag off a post.
C5_TagsOnlyAdded ==
    [][ImportStep => \A pk \in Pks(posts) : posts[pk].tags \subseteq posts'[pk].tags]_vars

\* C5's case: a run has updated a post that keeps a tag the document does
\* not list for it
C5_Witness ==
    \E r \in Runs :
        /\ run[r].pc = "exit_ok"
        /\ run[r].stats.posts_created = 0
        /\ \E i \in DOMAIN run[r].data.posts, pk \in Pks(posts), t \in Pks(tags) :
             /\ posts[pk].wp_post_id = run[r].data.posts[i].id
             /\ t \in posts[pk].tags
             /\ \A k \in DOMAIN run[r].data.posts[i].tags :
                    run[r].data.posts[i].tags[k] # tags[t].slug

\* C6: a post whose slug another post of the store has is imported all the
\* same: no run ends on the unique index of Post.slug.
C6_SlugCollisionImported ==
    \A r \in Runs : ~(run[r].pc = "exit_fail" /\ run[r].exc = "IntegrityError")

\* C7: when a store write fails while a post is imported, the run goes on:
\* it ends with the summary and the later posts of the document are stored.
C7_RunSurvivesPostFailure ==
    \A r \in Runs :
        (Ended(r) /\ run[r].stage \in {"post", "post_tags", "comment"}) =>
            /\ run[r].pc = "exit_ok"
            /\ \A i \in DOMAIN run[r].data.posts :
                   i > run[r].pidx => post_matches(posts, run[r].data.posts[i].id) # {}

\* the run was given no path, a path to no file, or a document the parser rejects
BadInput(r) ==
    \/ ~run[r].argv.given
    \/ ~run[r].argv.exists
    \/ ~run[r].argv.doc.wellformed
    \/ \E i \in DOMAIN run[r].argv.doc.items :
          LET item == run[r].argv.doc.items[i]
          IN  /\ item.post_type = "post"
              /\ \/ item.status = Missing
                 \/ /\ item.status \in {"publish", "draft", "future"}
                    /\ \/ item.pubDate = Missing
                       \/ \E j \in DOMAIN item.comments : comment_raises(item.comments[j])
    \/ \E i \in DOMAIN run[r].argv.doc.authors : author_raises(run[r].argv.doc.authors[i])

\* C8: a run with such an input never gets past the parser, ends with a
\* failure, and the store is as the run found it.
C8_NoWriteUnlessParsed ==
    \A r \in Runs :
        (run[r].pc # "idle" /\ BadInput(r)) =>
            /\ run[r].pc \in {"parse", "exit_fail"}
            /\ store = run[r].store0

\* C8's case: a run on a document the parser rejects has ended, over a store
\* an earlier run filled
C8_Witness ==
    \E r \in Runs :
        /\ run[r].pc = "exit_fail"
        /\ run[r].stage = "parse"
        /\ Len(posts) > 0

\* C9: a run whose author or tag resolution failed has ended with a failure
\* and wrote no post and no comment; and the run's author and tag maps send
\* each login and each slug to the one row of that name.
C9_ResolverFailureIsFatal ==
    \A r \in Runs :
        /\ run[r].stage \in {"default_author", "author", "tag"} =>
              /\ run[r].pc = "exit_fail"
              /\ posts = run[r].store0.posts
              /\ comments = run[r].store0.comments
        /\ \A login \in DOMAIN run[r].authors :
              {pk \in Pks(users) : users[pk].username = login} = {run[r].authors[login]}
        /\ \A slug \in DOMAIN run[r].tag_map :
              {pk \in Pks(tags) : tags[pk].slug = slug} = {run[r].tag_map[slug]}

\* C9's case: the store failed on a tag after the authors were written, in a
\* run whose document has posts
C9_Witness ==
    \E r \in Runs :
        /\ run[r].pc = "exit_fail"
        /\ run[r].stage = "tag"
        /\ Len(run[r].data.posts) > 0
        /\ Len(users) > Len(run[r].store0.users)

\* the items the claim keeps, and the status the claim gives each
KeptItems(items) ==
    {i \in DOMAIN items :
        items[i].post_type = "post" /\ items[i].status \in {"publish", "draft", "future"}}

StatusTable == [publish |-> "published", draft |-> "draft", future |-> "scheduled"]

\* the j-th kept item
NthKept(items, j) ==
    CHOOSE i \in KeptItems(items) : Cardinality({k \in KeptItems(items) : k < i}) = j - 1

\* C10: the parsed posts are the kept items, in document order and with the
\* mapped status; after the run every kept item has its post, with the
\* status of the last kept item of that id, and an id only dropped items
\* carry has gained no post.
C10_ParsedPostsAreKeptItems ==
    \A r \in Runs :
        (run[r].pc \notin {"idle", "parse"} /\ ~BadInput(r)) =>
            LET items == run[r].argv.doc.items
                parsed == run[r].data.posts
            IN  /\ Len(parsed) = Cardinality(KeptItems(items))
                /\ \A j \in DOMAIN parsed :
                      /\ parsed[j].id = items[NthKept(items, j)].post_id
                      /\ parsed[j].status = StatusTable[items[NthKept(items, j)].status]
                /\ run[r].pc = "exit_ok" =>
                      \A i \in DOMAIN items :
                          IF \E k \in KeptItems(items) : items[k].post_id = items[i].post_id
                          THEN \E pk \in Pks(posts) :
                                  /\ posts[pk].wp_post_id = items[i].post_id
                                  /\ \E k \in KeptItems(items) :
                                        /\ items[k].post_id = items[i].post_id
                                        /\ \A m \in KeptItems(items) :
                                              items[m].post_id = items[i].post_id => m <= k
                                        /\ posts[pk].status = StatusTable[items[k].status]
                          ELSE post_matches(posts, items[i].post_id)
                                  = post_matches(run[r].store0.posts, items[i].post_id)

\* C10's case: a run has ended that dropped one item and imported its sibling
C10_Witness ==
    \E r \in Runs :
        /\ run[r].pc = "exit_ok"
        /\ Len(run[r].argv.doc.items) = 2
        /\ Len(run[r].data.posts) = 1
        /\ run[r].stats.posts_created = 1

\* the row of the post with this source id
StoredPost(id) == CHOOSE pk \in Pks(posts) : posts[pk].wp_post_id = id

\* post i of the parsed document is the last the document lists with its id
LastListing(data, i) ==
    \A j \in DOMAIN data.posts : data.posts[j].id = data.posts[i].id => j <= i

\* the stored post of parsed post i has the title, slug, body, excerpt, status
\* and author of the document
PostAsListed(r, i) ==
    LET wp_post == run[r].data.posts[i]
        row == posts[StoredPost(wp_post.id)]
    IN  /\ row.title = wp_post.title
        /\ wp_post.slug # "" => row.slug = wp_post.slug
        /\ row.content_md = html_to_markdown(wp_post.content)
        /\ row.excerpt = wp_post.excerpt
        /\ row.status = wp_post.status
        /\ (\E a \in DOMAIN run[r].data.authors :
                run[r].data.authors[a].login = wp_post.author)
              => users[row.author].username = wp_post.author

\* the stored comment of comment c of parsed post i has the post, parent,
\* author, content and status of the document
CommentAsListed(r, i, c) ==
    LET row == comments[StoredComment(c.id)]
    IN  /\ row.post = StoredPost(run[r].data.posts[i].id)
        /\ row.parent = DeclaredParent(run[r].data.posts[i], c)
        /\ row.author_name = c.author_name
        /\ row.author_email = c.author_email
        /\ row.content = c.content
        /\ row.status = c.status

\* the tags of the parsed document with this slug
TagListings(data, slug) == {t \in DOMAIN data.tags : data.tags[t].slug = slug}

\* C11: after a run that ended with the summary, every post, comment and tag
\* that was in the store when the run began and that the document lists (the
\* last listing of a post id, a comment id or tag slug listed once) has the
\* field values of the document, the publication date among them, and no
\* two posts, comments or tags share their key.
C11_UpdatedAsListed ==
    \A r \in Runs :
        run[r].pc = "exit_ok" =>
            LET data == run[r].data
                old == run[r].store0
            IN  /\ \A i \in DOMAIN data.posts :
                      (post_matches(old.posts, data.posts[i].id) # {} /\ LastListing(data, i)) =>
                          /\ PostAsListed(r, i)
                          /\ posts[StoredPost(data.posts[i].id)].published_at
                                = data.posts[i].published_at
                /\ \A i \in DOMAIN data.posts : \A j \in DOMAIN data.posts[i].comments :
                      LET c == data.posts[i].comments[j]
                      IN  (/\ comment_matches(old.comments, c.id) # {}
                           /\ Cardinality(Listed(data, c.id)) = 1) => CommentAsListed(r, i, c)
                /\ \A t \in DOMAIN data.tags :
                      (/\ \E pk \in Pks(old.tags) : old.tags[pk].slug = data.tags[t].slug
                       /\ Cardinality(TagListings(data, data.tags[t].slug)) = 1) =>
                          \E pk \in Pks(tags) : /\ tags[pk].slug = data.tags[t].slug
                                                 /\ tags[pk].name = data.tags[t].name
                /\ \A p, q \in Pks(posts) :
                      (p # q /\ posts[p].wp_post_id # None) =>
                          posts[p].wp_post_id # posts[q].wp_post_id
                /\ \A p, q \in Pks(comments) :
                      p # q => comments[p].wp_comment_id # comments[q].wp_comment_id
                /\ \A p, q \in Pks(tags) : p # q => tags[p].slug # tags[q].slug

(***************************************************************************)
(* The media tools.                                                        *)
(***************************************************************************)
\* every image reference of a text, Markdown or HTML, whatever its host
references(content) ==
    {m.url : m \in Range(md_images(content, 1)) \cup Range(html_images(content, 1))}

\* the successful and the failed fetches of the download pass under way
Fetched == {i \in DOMAIN dl.log : dl.log[i].ok}
Failed == {i \in DOMAIN dl.log : ~dl.log[i].ok}

\* C12: two posts that reference the identical image URL give one media
\* record, and both bodies are rewritten to the same new URL: a download pass
\* never stores the image of one URL twice, so that two posts never get
\* different new URLs for it.
C12_OneRecordPerUrl ==
    \A i, j \in Fetched :
        dl.log[i].url = dl.log[j].url => i = j /\ dl.log[i].new_url = dl.log[j].new_url

\* C13: a fetch that fails creates no media record, leaves its URL in the
\* body as a reference, and never ends the run: the pass goes on with the
\* other references and the other posts.
C13_FailureLeavesUrl ==
    /\ dl.pc \notin Stopped => Len(images) = Len(dl.images0) + Cardinality(Fetched)
    /\ Failed # {} => dl.pc # "exit_fail"
    /\ dl.pc = "save" =>
          \A i \in Failed : dl.log[i].post = dl.post => dl.log[i].url \in references(dl.new_content)

\* C14: once a reference of a post was fetched, the body to be saved holds
\* no reference to the original URL any more, and every reference to another
\* URL of the same body is as it was.
C14_ReplacesOnlyThatUrl ==
    dl.pc = "save" =>
        LET done == {dl.log[i].url : i \in {k \in Fetched : dl.log[k].post = dl.post}}
            before == references(dl.rows[dl.post].content_md)
        IN  /\ \A u \in done : u \notin references(dl.new_content)
            /\ \A u \in before \ done : u \in references(dl.new_content)

\* a body of the table holds a reference a download pass wrote
Rewritten(rows) == \E pk \in Pks(rows) : contains(rows[pk].content_md, MEDIA_URL \o upload_to)

\* C15: a download pass over posts whose references an earlier pass rewrote
\* creates no media record and leaves every body as it was.
C15_SecondPassIdle ==
    (dl.pc = "exit_ok" /\ Rewritten(dl.rows)) =>
        /\ images = dl.images0
        /\ \A pk \in Pks(dl.rows) : posts[pk].content_md = dl.rows[pk].content_md

\* C16: no request goes out to the network for a reference that is a local
\* path, one that starts with '/'.
C16_LocalPathNoNetwork == \A q \in net : ~starts(q.ref, "/", 1)

\* the order of the first reference to each URL in the text
RECURSIVE by_first_reference(_, _)
by_first_reference(content, urls) ==
    IF urls = {} THEN <<>>
    ELSE LET refs == Range(md_images(content, 1)) \cup Range(html_images(content, 1))
             at(u) == Last({0 - m.at : m \in {x \in refs : x.url = u}})
             first == CHOOSE u \in urls : \A o \in urls : at(o) <= at(u)
         IN  <<first>> \o by_first_reference(content, urls \ {first})

\* C17: the references extracted from a body are image references of that
\* body, each one once, in the order of their first occurrence in it.
C17_FirstOccurrenceOrder ==
    dl.pc \in {"fetch", "save"} =>
        /\ Range(dl.image_urls) \subseteq references(dl.rows[dl.post].content_md)
        /\ dl.image_urls = by_first_reference(dl.rows[dl.post].content_md, Range(dl.image_urls))

(***************************************************************************)
(* The transcoder and the parser.                                          *)
(***************************************************************************)
\* the run ended with the summary of the import of ScenarioDoc
ScenarioDone(r) == run[r].pc = "exit_ok" /\ run[r].argv.doc = ScenarioDoc

\* the store holds the one post of ScenarioDoc with this body, the tag foo
\* once and on the post, comment 10 as a root and comment 11 under it
ScenarioImported(body) ==
    /\ Cardinality(post_matches(posts, 1)) = 1
    /\ posts[StoredPost(1)].content_md = body
    /\ Cardinality({pk \in Pks(tags) : tags[pk].slug = "foo"}) = 1
    /\ \E pk \in posts[StoredPost(1)].tags : tags[pk].slug = "foo"
    /\ Cardinality(comment_matches(comments, 10)) = 1
    /\ Cardinality(comment_matches(comments, 11)) = 1
    /\ comments[StoredComment(10)].post = StoredPost(1)
    /\ comments[StoredComment(10)].parent = None
    /\ comments[StoredComment(11)].post = StoredPost(1)
    /\ comments[StoredComment(11)].parent = StoredComment(10)

\* C18: the import of the export with post 1 (publish, body
\* <h1>Hi</h1><p>World</p>, tag foo), comment 10 (parent 0) and comment 11
\* (parent 10) gives one post whose Markdown body is "# Hi\n\nWorld\n\n", the
\* tag foo once and on the post, comment 10 a root and comment 11 under it.
C18_Scenario == \A r \in Runs : ScenarioDone(r) => ScenarioImported("# Hi\n\nWorld\n\n")

\* C18 as the code has it: the same, with the body "# Hi\nWorld" (one line
\* feed after the heading, none at the end).
C18_ScenarioStripped == \A r \in Runs : ScenarioDone(r) => ScenarioImported("# Hi\nWorld")

\* C18's case: the import of ScenarioDoc has ended with its summary
C18_Witness ==
    \E r \in Runs :
        /\ ScenarioDone(r)
        /\ run[r].stats.comments_created = 2
        /\ posts[StoredPost(1)].content_md # ""

\* s holds an HTML tag: a '<', a character that is not '>', and a '>' after it
has_tag(s) ==
    \E i \in 1..Len(s) :
        /\ SubSeq(s, i, i) = "<"
        /\ i < Len(s)
        /\ SubSeq(s, i + 1, i + 1) # ">"
        /\ find(s, ">", i + 1) # 0

\* s from its first to its last character that is not white space
Trimmed(s) ==
    LET inked == {i \in 1..Len(s) : SubSeq(s, i, i) \notin Whitespace}
    IN  IF inked = {} THEN ""
        ELSE SubSeq(s, CHOOSE i \in inked : \A o \in inked : i <= o, Last(inked))

\* s with every run of three or more line feeds cut down to two
RECURSIVE Collapsed(_)
Collapsed(s) ==
    IF Len(s) < 3 THEN s
    ELSE IF SubSeq(s, 1, 3) = "\n\n\n" THEN Collapsed(From(s, 2))
    ELSE SubSeq(s, 1, 1) \o Collapsed(From(s, 2))

OnlyOptionalMissing(doc) ==
    /\ doc.wellformed
    /\ \A i \in DOMAIN doc.items :
          doc.items[i].post_type = "post" => doc.items[i].status # Missing

\* C20: the parser yields the document whatever optional field (excerpt,
\* e-mail of an author or of a comment, publication date) is missing; a
\* missing excerpt is parsed as the empty text, and a publication date that
\* is missing or cannot be parsed as no published_at.
C20_OptionalFieldsTolerated ==
    \A r \in Runs :
        /\ (run[r].pc = "exit_fail" /\ run[r].stage = "parse") =>
              ~OnlyOptionalMissing(run[r].argv.doc)
        /\ \A j \in DOMAIN run[r].data.posts :
              LET item == run[r].argv.doc.items[NthKept(run[r].argv.doc.items, j)]
              IN  /\ item.excerpt = Missing => run[r].data.posts[j].excerpt = ""
                  /\ item.pubDate # ValidPubDate => run[r].data.posts[j].published_at = NoTime

(***************************************************************************)
(* The summary and the comments of the import.                             *)
(***************************************************************************)
\* the posts of the parsed document that update_or_create found in the store:
\* those that were there when the run began, or that the document lists again
UpdatedPosts(r) ==
    {i \in DOMAIN run[r].data.posts :
        \/ post_matches(run[r].store0.posts, run[r].data.posts[i].id) # {}
        \/ \E j \in 1..(i - 1) : run[r].data.posts[j].id = run[r].data.posts[i].id}

\* the three counters of the summary are the numbers of rows the run inserted
CreatedCounted(r) ==
    /\ run[r].stats.tags_created = Len(tags) - Len(run[r].store0.tags)
    /\ run[r].stats.posts_created = Len(posts) - Len(run[r].store0.posts)
    /\ run[r].stats.comments_created = Len(comments) - Len(run[r].store0.comments)

\* C21: the summary of a run that ended holds tags_created, posts_created and
\* comments_created, each the number of rows the run inserted, and
\* posts_updated, the number of posts of the document that matched a stored
\* post, so that posts_created + posts_updated is the number of posts processed.
C21_SummaryAccurate ==
    \A r \in Runs :
        run[r].pc = "exit_ok" =>
            /\ CreatedCounted(r)
            /\ "posts_updated" \in DOMAIN run[r].stats
            /\ run[r].stats.posts_updated = Cardinality(UpdatedPosts(r))
            /\ run[r].stats.posts_created + run[r].stats.posts_updated
                  = Len(run[r].data.posts)

\* C22: after a run that ended, every comment the document lists (once) with
\* a date that parses has that date as its created_at, whether the run
\* created the comment or found it in the store.
C22_SourceTimestampKept ==
    \A r \in Runs :
        run[r].pc = "exit_ok" =>
            \A i \in DOMAIN run[r].data.posts : \A j \in DOMAIN run[r].data.posts[i].comments :
                LET c == run[r].data.posts[i].comments[j]
                IN  (c.created_at.k # "none" /\ Cardinality(Listed(run[r].data, c.id)) = 1) =>
                        comments[StoredComment(c.id)].created_at = c.created_at

\* the reference the featured-image tool resolves for the post at the head of
\* its loop; "" when the post has none
fe_reference(row) ==
    IF extract_first_image_url(row.content_html) # ""
    THEN extract_first_image_url(row.content_html)
    ELSE extract_first_image_url(row.content_md)

\* the step resolves a reference for which a media record is stored
ResolvesStored(url) == url # "" /\ find_existing_image(images, url) # None

\* C23: when a media record is stored whose original name or file name
\* matches the file name of the reference, resolving the reference issues no
\* fetch and creates no media record, in either tool.
C23_ReusesStoredRecord ==
    [][/\ (dl.pc = "fetch" /\ ResolvesStored(dl.image_urls[dl.u]))
            => (images' = images /\ net' = net)
       /\ (fe.pc = "post" /\ fe.rows[Head(fe.queue)].featured_image = None
             /\ ResolvesStored(fe_reference(fe.rows[Head(fe.queue)])))
            => (images' = images /\ net' = net)]_vars

(***************************************************************************)
(* The passes of the transcoder.                                           *)
(***************************************************************************)
\* characters the replacements write and no text of PassTexts holds ("~"
\* stands for the backtick)
Markers == {"#", "*", "~", "-", "[", "!"}

\* how many times the character ch stands in s
RECURSIVE count(_, _)
count(ch, s) ==
    IF s = "" THEN 0
    ELSE (IF SubSeq(s, 1, 1) = ch THEN 1 ELSE 0) + count(ch, From(s, 2))

\* C24: no pass consumes or alters a character an earlier pass wrote: for a
\* text that holds no marker of its own, every pass leaves at least as many
\* '#', '*', backticks, '-', '[' and '!' as it found.
C24_EmittedKept ==
    tx.pc = "passes" => \A ch \in Markers : count(ch, tx.md) >= count(ch, tx.prev)

\* C25: between runs of the import, every stored comment that has a parent
\* is a comment of the post its parent is a comment of.
C25_ParentOnSamePost ==
    Quiet =>
        \A c \in Pks(comments) :
            comments[c].parent # None => comments[comments[c].parent].post = comments[c].post

\* the last place <<post, position>> of the parsed document that lists comment id
LastListed(data, id) ==
    CHOOSE pl \in Listed(data, id) : \A o \in Listed(data, id) : o[1] <= pl[1]

\* C26: after a run that ended, every comment id the document lists has one
\* stored comment, whatever post it was on before and however many posts of
\* the document list it, and that comment is on the post that was processed
\* last among those that list it.
C26_OneCommentOnLastPost ==
    \A r \in Runs :
        run[r].pc = "exit_ok" =>
            \A i \in DOMAIN run[r].data.posts : \A j \in DOMAIN run[r].data.posts[i].comments :
                LET id == run[r].data.posts[i].comments[j].id
                    last == run[r].data.posts[LastListed(run[r].data, id)[1]]
                IN  /\ Cardinality(comment_matches(comments, id)) = 1
                    /\ comments[StoredComment(id)].post = StoredPost(last.id)

\* C26's case: a run has ended whose document lists a comment under two
\* posts, and the comment is no longer on the post that lists it first
C26_Witness ==
    \E r \in Runs :
        /\ run[r].pc = "exit_ok"
        /\ \E pl, pm \in Listed(run[r].data, 1) :
              /\ pl[1] < pm[1]
              /\ StoredPost(run[r].data.posts[pl[1]].id) # StoredPost(run[r].data.posts[pm[1]].id)
              /\ comments[StoredComment(1)].post = StoredPost(run[r].data.posts[pm[1]].id)

\* both processes have ended
BothEnded == \A r \in Runs : run[r].pc \in {"exit_ok", "exit_fail"}

\* C27: when two runs of the same document that ran at once have both
\* ended, no two posts have the same wp_post_id and no two comments the same
\* wp_comment_id, however their store operations interleaved.
C27_NoSharedSourceId ==
    BothEnded =>
        /\ \A p, q \in Pks(posts) :
              (p # q /\ posts[p].wp_post_id # None) => posts[p].wp_post_id # posts[q].wp_post_id
        /\ \A p, q \in Pks(comments) :
              p # q => comments[p].wp_comment_id # comments[q].wp_comment_id

\* post i of the parsed document is published and has no publication date
Undated(r, i) ==
    /\ run[r].data.posts[i].status = "published"
    /\ run[r].data.posts[i].published_at = NoTime

\* C28: every stored post with the status published has a published_at; and
\* after a run that ended, a published post of the document without a
\* publication date that parses has the time of that run as its
\* published_at, so that every re-import gives it a new one.
C28_PublishedIsStamped ==
    /\ \A pk \in Pks(posts) : posts[pk].status = "published" => posts[pk].published_at # NoTime
    /\ \A r \in Runs :
          run[r].pc = "exit_ok" =>
              \A i \in DOMAIN run[r].data.posts :
                  (Undated(r, i) /\ LastListing(run[r].data, i)) =>
                      posts[StoredPost(run[r].data.posts[i].id)].published_at = Now(run[r].now)

\* C28's case: a re-import has ended of a published post without a date, and
\* the post has another published_at than the first import gave it
C28_Witness ==
    \E r \in Runs :
        /\ run[r].pc = "exit_ok"
        /\ \E i \in DOMAIN run[r].data.posts :
              /\ Undated(r, i)
              /\ \E pk \in post_matches(run[r].store0.posts, run[r].data.posts[i].id) :
                    /\ run[r].store0.posts[pk].published_at.k = "now"
                    /\ posts[pk].published_at # run[r].store0.posts[pk].published_at

\* the logins and the tag slugs of the lists of the parsed document
Logins(data) == {data.authors[a].login : a \in DOMAIN data.authors}
TagSlugs(data) == {data.tags[t].slug : t \in DOMAIN data.tags}

\* the tags the post with this source id had when the run began
TagsBefore(r, id) ==
    UNION {run[r].store0.posts[pk].tags : pk \in post_matches(run[r].store0.posts, id)}

\* C29: after a run that ended, a post whose login is not in the author list
\* of the document has the default author of the run (and a post whose login
\* is in the list has that author); a tag slug of a post that is not in the
\* tag list of the document is not attached to it; and the run created no
\* user but the default author and the listed authors, and no tag but the
\* listed tags.
C29_UnknownAuthorAndTag ==
    \A r \in Runs :
        run[r].pc = "exit_ok" =>
            LET data == run[r].data
            IN  /\ \A i \in DOMAIN data.posts :
                      LET row == posts[StoredPost(data.posts[i].id)]
                      IN  /\ LastListing(data, i) =>
                                IF data.posts[i].author \in Logins(data)
                                THEN users[row.author].username = data.posts[i].author
                                ELSE row.author = run[r].default_author
                          /\ \A t \in row.tags \ TagsBefore(r, data.posts[i].id) :
                                tags[t].slug \in TagSlugs(data)
                /\ users[run[r].default_author].username = "admin"
                /\ \A u \in Pks(users) \ Pks(run[r].store0.users) :
                      users[u].username \in Logins(data) \cup {"admin"}
                /\ \A t \in Pks(tags) \ Pks(run[r].store0.tags) : tags[t].slug \in TagSlugs(data)

\* C29's case: a run has ended whose post names a login and a tag slug that
\* the lists of the document do not hold
C29_Witness ==
    \E r \in Runs :
        /\ run[r].pc = "exit_ok"
        /\ \E i \in DOMAIN run[r].data.posts :
              /\ run[r].data.posts[i].author \notin Logins(run[r].data)
              /\ \E k \in DOMAIN run[r].data.posts[i].tags :
                    run[r].data.posts[i].tags[k] \notin TagSlugs(run[r].data)
              /\ posts[StoredPost(run[r].data.posts[i].id)].author = run[r].default_author
              /\ posts[StoredPost(run[r].data.posts[i].id)].tags # {}

(***************************************************************************)
(* The cover-image task.                                                   *)
(***************************************************************************)
\* the attempt raised in generation or in one of the two saves
Raised30(a) ==
    gen.log[a].outcome \in {"generate_raises", "image_save_raises", "post_save_raises"}

\* C30: the task is attempted at most 4 times and ends in failure after the
\* fourth attempt that raised; an attempt is followed by another only when
\* generation or saving raised in it, never when the post was missing or the
\* service gave no image; and a featured_image that changed is the image an
\* attempt of the task stored.
C30_BoundedRetries ==
    gen.pc # "idle" =>
        /\ Len(gen.log) <= 4
        /\ gen.pc = "failure" <=> (Len(gen.log) = 4 /\ Raised30(4))
        /\ \A a \in 1..(Len(gen.log) - 1) : Raised30(a)
        /\ gen.pc = "retry" => Raised30(Len(gen.log))
        /\ \A pk \in Pks(posts) :
              posts[pk].featured_image # gen.posts0[pk].featured_image =>
                  \E a \in DOMAIN gen.log : /\ gen.log[a].outcome = "stored"
                                            /\ gen.log[a].image = posts[pk].featured_image
                                            /\ pk = gen.post_id

\* C30's case: three retries were used up and the task failed, with an image
\* left in the table by an attempt whose post.save() raised
C30_Witness ==
    /\ gen.pc = "failure"
    /\ Len(gen.log) = 4
    /\ Len(images) > 0
    /\ gen.seen = "error"

====
